---- MODULE Spec2Model ----
(***************************************************************************)
(* CrossFlow: turning-movement counts -> SUMO flows.                       *)
(* Model of simulator/simulation.py, simulator/edge_mapping.py,            *)
(* simulator/utils.py and simulator/database.py.                            *)
(*                                                                         *)
(* Representation choices                                                  *)
(*   - a datetime is the number of seconds since midnight of the day of    *)
(*     the data (all timestamps naive, whole seconds);                     *)
(*   - a CSV cell is a string; parsing (fromisoformat, int, split, lower)  *)
(*     is a table over the strings the model draws;                        *)
(*   - a dict is a function; a dict whose iteration order matters (a CSV   *)
(*     row) is a sequence of [key, value] cells with distinct keys;        *)
(*   - Python's None is the string NoneVal.                                *)
(***************************************************************************)
EXTENDS Integers, Sequences, FiniteSets, TLC

VARIABLES
    pc,                   \* position of the operation under check
    mapping,              \* generate_flows_for_intersection: argument mapping
    rows,                 \* generate_flows_for_intersection: argument rows
    intersection_id,      \* generate_flows_for_intersection: argument intersection_id
    simulation_start_dt,  \* simulation window start
    simulation_end_dt,    \* simulation window end
    gen_result,           \* outcome of generate_flows_for_intersection
    key_prefix,           \* key part `prefix` under decoding
    key_movement,         \* key part `movement` under decoding
    from_dir,             \* simulation.py:72
    to_dir,               \* simulation.py:73
    angle,                \* classify_direction: argument
    direction,            \* classify_direction: result
    intervals,            \* availability: list of (st, et) read from the rows
    merged_intervals,     \* availability: merged list
    input_fault,          \* simulate_simulation: what is wrong with the input files
    intersections,        \* simulate_simulation: the list loaded from the JSON file
    data_rows_by_id,      \* simulate_simulation: CSV rows grouped by centreline_id
    db_file,              \* the persisted cache document (PROCESSED_DB_PATH)
    db_file_at_start,     \* history: db_file when the run started
    processed_db,         \* simulate_simulation: the cache as loaded at line 143
    idx,                  \* simulate_simulation: position of the loop over intersections
    junction_id,          \* simulate_simulation: local junction_id
    input_coords,         \* simulate_simulation: local input_coords (<<>> is None)
    availability_intervals, \* simulate_simulation: local availability_intervals
    cur_mapping,          \* simulate_simulation: local mapping
    routes_root,          \* simulate_simulation: the flow children of routes_root
    incomplete_data,      \* simulate_simulation: the diagnostics list
    simulation_details,   \* simulate_simulation: the details list
    emitted,              \* history: per intersection, the flows it added to routes_root
    replies,              \* history: per intersection, the answer typed at the prompt
    synth_for,            \* history: the intersection of the last flow synthesis (0: none)
    net,                  \* the SUMO network (nodes and edges) read from the map file
    map_result,           \* outcome of map_junction_edges
    overlap_intervals,    \* time_overlaps: argument intervals
    query_start,          \* time_overlaps: argument sim_start
    query_end,            \* time_overlaps: argument sim_end
    overlap_result,       \* time_overlaps: returned value
    put_record,           \* update_processed_db: argument record
    prev_result,          \* outcome of the previous call of generate_flows_for_intersection
    locate_lon,           \* find_intersection: argument target_lon
    locate_lat,           \* find_intersection: argument target_lat
    user_reply,           \* find_intersection: what input() returns at the prompt
    find_result,          \* outcome of find_intersection
    writer_put,           \* per writer: the arguments of its update_processed_db call
    writer_pc,            \* per writer: its position in update_processed_db
    writer_db,            \* per writer: update_processed_db's local db
    writer_log,           \* history: the steps the writers have taken, in order
    csv_rows,             \* the rows of the CSV file handed to utils.py
    util_availability     \* what get_data_availability_by_intersection returned

flowVars == <<mapping, rows, intersection_id, simulation_start_dt,
              simulation_end_dt, gen_result>>
turnVars == <<key_prefix, key_movement, from_dir, to_dir>>
classifyVars == <<angle, direction>>
mergeVars == <<intervals, merged_intervals>>

pipeVars == <<input_fault, intersections, data_rows_by_id, db_file, db_file_at_start,
              processed_db, idx, junction_id, input_coords, availability_intervals,
              cur_mapping, routes_root, incomplete_data, simulation_details, emitted,
              replies, synth_for>>

mapVars == <<net, map_result>>
overlapVars == <<overlap_intervals, query_start, query_end, overlap_result>>
cacheVars == <<put_record>>
repeatVars == <<prev_result>>
locateVars == <<locate_lon, locate_lat, user_reply, find_result>>
writerVars == <<writer_put, writer_pc, writer_db, writer_log>>
availVars == <<csv_rows, util_availability>>
extraVars == <<mapVars, overlapVars, cacheVars, repeatVars, locateVars, writerVars,
               availVars>>

vars == <<pc, flowVars, turnVars, classifyVars, mergeVars, pipeVars, extraVars>>

NoneVal == "None"

\* the empty dict
EmptyDict == [d \in {} |-> <<>>]

(***************************************************************************)
(* Bounds of the model                                                     *)
(***************************************************************************)
MaxRows == 2          \* rows per intersection
MaxIntervals == 3     \* (start, end) pairs per availability computation
MaxTime == 3          \* abstract time points 0..MaxTime of the merge inputs
MaxOverlapIntervals == 2   \* intervals handed to time_overlaps
MaxEdges == 3         \* edges of the network handed to map_junction_edges
MaxCsvRows == 3       \* rows of the CSV file handed to both availability computations
MaxInters == 2        \* intersections in the input JSON
MaxAngle == 359       \* angles 0..MaxAngle (degrees) given to classify_direction

(***************************************************************************)
(* Parsing tables                                                          *)
(***************************************************************************)

\* datetime.fromisoformat on the time strings of the model; anything else
\* raises (ok = FALSE).
FromIsoFormat(s) ==
    CASE s = "2024-01-01T07:45:00" -> [ok |-> TRUE, t |-> 27900]
      [] s = "2024-01-01T08:00:00" -> [ok |-> TRUE, t |-> 28800]
      [] s = "2024-01-01T08:15:00" -> [ok |-> TRUE, t |-> 29700]
      [] s = "2024-01-01T08:30:00" -> [ok |-> TRUE, t |-> 30600]
      [] s = "2024-01-01T08:45:00" -> [ok |-> TRUE, t |-> 31500]
      [] OTHER -> [ok |-> FALSE, t |-> 0]

\* int(value) on the count strings of the model; anything else raises.
IntOf(v) ==
    CASE v = "5" -> [ok |-> TRUE, n |-> 5]
      [] v = "3" -> [ok |-> TRUE, n |-> 3]
      [] v = " 7 " -> [ok |-> TRUE, n |-> 7]
      [] v = "0" -> [ok |-> TRUE, n |-> 0]
      [] v = "-2" -> [ok |-> TRUE, n |-> -2]
      [] OTHER -> [ok |-> FALSE, n |-> 0]

\* str.lower on the key parts of the model.
Lower(s) ==
    CASE s = "N" -> "n" [] s = "S" -> "s" [] s = "E" -> "e" [] s = "W" -> "w"
      [] s = "R" -> "r" [] s = "T" -> "t" [] s = "L" -> "l"
      [] s = "APPR" -> "appr" [] s = "Appr" -> "appr"
      [] OTHER -> s

\* key.split("_") on the column names of the model.
Split(key) ==
    CASE key = "n_appr_cars_t" -> <<"n", "appr", "cars", "t">>
      [] key = "n_appr_cars_r" -> <<"n", "appr", "cars", "r">>
      [] key = "n_cars_l" -> <<"n", "cars", "l">>
      [] key = "s_appr_truck_r" -> <<"s", "appr", "truck", "r">>
      [] key = "E_APPR_bus_L" -> <<"E", "APPR", "bus", "L">>
      [] key = "w_appr_bus_t" -> <<"w", "appr", "bus", "t">>
      [] key = "w_appr_peds_t" -> <<"w", "appr", "peds", "t">>
      [] key = "n_appr_bike_t" -> <<"n", "appr", "bike", "t">>
      [] key = "n_appr_car_t" -> <<"n", "appr", "car", "t">>
      [] key = "n_appr_Cars_t" -> <<"n", "appr", "Cars", "t">>
      [] key = "n_xxxx_cars_t" -> <<"n", "xxxx", "cars", "t">>
      [] key = "x_appr_cars_t" -> <<"x", "appr", "cars", "t">>
      [] key = "n_appr_cars_u" -> <<"n", "appr", "cars", "u">>
      [] key = "n_cars" -> <<"n", "cars">>
      [] key = "n_appr_cars_t_x" -> <<"n", "appr", "cars", "t", "x">>
      [] key = "px" -> <<"px">>
      [] key = "centreline_id" -> <<"centreline", "id">>
      [] key = "location_name" -> <<"location", "name">>
      [] OTHER -> <<key>>

(***************************************************************************)
(* generate_flows_for_intersection (simulation.py:25-94)                   *)
(***************************************************************************)

incoming_mapping == [n |-> "north", s |-> "south", e |-> "east", w |-> "west"]

\* mutant: the right turn from the north leads east
outgoing_mapping_NorthRightEast ==
    [r |-> [n |-> "east", e |-> "north", s |-> "east", w |-> "south"],
     t |-> [n |-> "south", e |-> "west", s |-> "north", w |-> "east"],
     l |-> [n |-> "east", e |-> "south", s |-> "west", w |-> "north"]]

outgoing_mapping ==
    [r |-> [n |-> "west", e |-> "north", s |-> "east", w |-> "south"],
     t |-> [n |-> "south", e |-> "west", s |-> "north", w |-> "east"],
     l |-> [n |-> "east", e |-> "south", s |-> "west", w |-> "north"]]

ignore_keys ==
    {"_id", "count_id", "count_date", "location_name", "longitude", "latitude",
     "centreline_type", "centreline_id", "px", "start_time", "end_time"}

\* incoming_mapping.get(prefix.lower())
FromDirOf(prefix) ==
    IF Lower(prefix) \in DOMAIN incoming_mapping
    THEN incoming_mapping[Lower(prefix)] ELSE NoneVal

\* outgoing_mapping.get(movement.lower(), {}).get(prefix.lower())
ToDirOf(prefix, movement) ==
    IF Lower(movement) \in DOMAIN outgoing_mapping
    THEN IF Lower(prefix) \in DOMAIN outgoing_mapping[Lower(movement)]
         THEN outgoing_mapping[Lower(movement)][Lower(prefix)] ELSE NoneVal
    ELSE NoneVal

\* mutant: the singular "car" is accepted as well
VehicleOf_AcceptsCar(vehicle_str) ==
    IF vehicle_str \in {"cars", "car"} THEN "car"
    ELSE IF vehicle_str \in {"truck", "bus"} THEN vehicle_str
    ELSE NoneVal

\* the vehicle vocabulary; NoneVal when the key is skipped
VehicleOf(vehicle_str) ==
    IF vehicle_str = "cars" THEN "car"
    ELSE IF vehicle_str \in {"truck", "bus"} THEN vehicle_str
    ELSE NoneVal

Skip == [skip |-> TRUE, vehicle |-> NoneVal, count |-> 0,
         from_dir |-> NoneVal, to_dir |-> NoneVal]

\* mutant: the second of four parts is not compared with "appr"
KeyParts_NoApprCheck(key) ==
    LET parts == Split(key) IN
    IF Len(parts) = 3 THEN parts
    ELSE IF Len(parts) = 4 THEN <<parts[1], parts[3], parts[4]>>
    ELSE <<>>

\* the three parts (prefix, vehicle_str, movement) of a key, or <<>> when
\* the key is skipped by the length / appr checks
KeyParts(key) ==
    LET parts == Split(key) IN
    IF Len(parts) = 3 THEN parts
    ELSE IF Len(parts) = 4
         THEN IF Lower(parts[2]) # "appr" THEN <<>>
              ELSE <<parts[1], parts[3], parts[4]>>
    ELSE <<>>

\* one iteration of the loop over row.items(), up to the mapping check:
\* either the key is skipped (continue) or it qualifies.
DecodeCell(key, value) ==
    IF key \in ignore_keys THEN Skip
    ELSE LET p == KeyParts(key) IN
    IF p = <<>> THEN Skip
    ELSE IF VehicleOf(p[2]) = NoneVal THEN Skip
    ELSE IF ~IntOf(value).ok THEN Skip
    ELSE IF IntOf(value).n <= 0 THEN Skip
    ELSE IF FromDirOf(p[1]) = NoneVal \/ ToDirOf(p[1], p[3]) = NoneVal THEN Skip
    ELSE [skip |-> FALSE, vehicle |-> VehicleOf(p[2]), count |-> IntOf(value).n,
          from_dir |-> FromDirOf(p[1]), to_dir |-> ToDirOf(p[1], p[3])]

\* dict.get(d) of a direction -> edge list dict; <<>> is falsy like None
EdgesOf(m, d) == IF d \in DOMAIN m THEN m[d] ELSE <<>>

\* the condition of the raise at simulation.py:76
MappingIncomplete(m, d) ==
    EdgesOf(m.incoming, d.from_dir) = <<>> \/ EdgesOf(m.outgoing, d.to_dir) = <<>>

\* mutant: end is the duration, not begin + duration
FlowElem_EndIsDuration(m, jid, key, d, base_time, duration) ==
    [id |-> <<jid, key, base_time>>,
     begin |-> base_time,
     end |-> duration,
     number |-> d.count,
     from |-> m.incoming[d.from_dir][1],
     to |-> m.outgoing[d.to_dir][1],
     type |-> d.vehicle]

\* the flow element built at simulation.py:81-92
FlowElem(m, jid, key, d, base_time, duration) ==
    [id |-> <<jid, key, base_time>>,
     begin |-> base_time,
     end |-> base_time + duration,
     number |-> d.count,
     from |-> m.incoming[d.from_dir][1],
     to |-> m.outgoing[d.to_dir][1],
     type |-> d.vehicle]

\* mutant: a direction that is a key of the mapping with an empty list makes
\* the key be passed over; only a direction that is no key raises
RECURSIVE KeysLoop_EmptyListSkipsKey(_, _, _, _, _, _, _)
KeysLoop_EmptyListSkipsKey(m, jid, cells, k, base_time, duration, flows) ==
    IF k > Len(cells) THEN [raised |-> FALSE, flows |-> flows]
    ELSE LET d == DecodeCell(cells[k].key, cells[k].value) IN
         IF d.skip
         THEN KeysLoop_EmptyListSkipsKey(m, jid, cells, k + 1, base_time, duration, flows)
         ELSE IF d.from_dir \notin DOMAIN m.incoming \/ d.to_dir \notin DOMAIN m.outgoing
         THEN [raised |-> TRUE, flows |-> flows]
         ELSE IF MappingIncomplete(m, d)
         THEN KeysLoop_EmptyListSkipsKey(m, jid, cells, k + 1, base_time, duration, flows)
         ELSE KeysLoop_EmptyListSkipsKey(m, jid, cells, k + 1, base_time, duration,
                       Append(flows, FlowElem(m, jid, cells[k].key, d, base_time, duration)))

\* the loop over row.items() from cell k on; raised = the ValueError left
\* the function, flows = the local list at that point
RECURSIVE KeysLoop(_, _, _, _, _, _, _)
KeysLoop(m, jid, cells, k, base_time, duration, flows) ==
    IF k > Len(cells) THEN [raised |-> FALSE, flows |-> flows]
    ELSE LET d == DecodeCell(cells[k].key, cells[k].value) IN
         IF d.skip THEN KeysLoop(m, jid, cells, k + 1, base_time, duration, flows)
         ELSE IF MappingIncomplete(m, d) THEN [raised |-> TRUE, flows |-> flows]
         ELSE KeysLoop(m, jid, cells, k + 1, base_time, duration,
                       Append(flows, FlowElem(m, jid, cells[k].key, d, base_time, duration)))

\* mutant: a row starting exactly at the window's end is kept
RowInWindow_ClosedEnd(row_start, sim_start, sim_end) ==
    ~(row_start < sim_start \/ row_start > sim_end)

\* the test on the row's start time at simulation.py:44
RowInWindow(row_start, sim_start, sim_end) ==
    ~(row_start < sim_start \/ row_start >= sim_end)

\* the loop over rows from row r on
RECURSIVE RowsLoop(_, _, _, _, _, _, _)
RowsLoop(m, rs, r, jid, sim_start, sim_end, flows) ==
    IF r > Len(rs) THEN [raised |-> FALSE, flows |-> flows]
    ELSE LET row_start == FromIsoFormat(rs[r].start_time)
             row_end == FromIsoFormat(rs[r].end_time)
         IN IF ~row_start.ok \/ ~row_end.ok
            THEN RowsLoop(m, rs, r + 1, jid, sim_start, sim_end, flows)
            ELSE IF ~RowInWindow(row_start.t, sim_start, sim_end)
            THEN RowsLoop(m, rs, r + 1, jid, sim_start, sim_end, flows)
            ELSE LET res == KeysLoop(m, jid, rs[r].cells, 1,
                                     row_start.t - sim_start,
                                     row_end.t - row_start.t, flows)
                 IN IF res.raised THEN res
                    ELSE RowsLoop(m, rs, r + 1, jid, sim_start, sim_end, res.flows)

\* mutant: a call made after the first one lists its flows in another order
GenerateFlows_OrderVaries(m, rs, jid, sim_start, sim_end) ==
    LET res == RowsLoop(m, rs, 1, jid, sim_start, sim_end, <<>>)
    IN IF pc = "call" THEN res
       ELSE [res EXCEPT !.flows = [i \in 1..Len(@) |-> @[Len(@) + 1 - i]]]

\* generate_flows_for_intersection: returns the list (raised = FALSE) or
\* raises ValueError (raised = TRUE; flows is then the abandoned local list)
GenerateFlows(m, rs, jid, sim_start, sim_end) ==
    RowsLoop(m, rs, 1, jid, sim_start, sim_end, <<>>)

(***************************************************************************)
(* Inputs of generate_flows_for_intersection drawn by the model            *)
(***************************************************************************)

Cell(k, v) == [key |-> k, value |-> v]

Row(st, et, cells) == [start_time |-> st, end_time |-> et, cells |-> cells]

TimeStrings ==
    {"2024-01-01T07:45:00", "2024-01-01T08:00:00", "2024-01-01T08:15:00",
     "2024-01-01T08:30:00", "2024-01-01T08:45:00", "n/a"}

KeyPool ==
    {"n_appr_cars_t", "n_appr_cars_r", "n_cars_l", "s_appr_truck_r",
     "E_APPR_bus_L", "w_appr_bus_t", "w_appr_peds_t", "n_appr_bike_t",
     "n_appr_car_t", "n_appr_Cars_t", "n_xxxx_cars_t", "x_appr_cars_t",
     "n_appr_cars_u", "n_cars", "n_appr_cars_t_x", "px", "centreline_id",
     "location_name"}

ValuePool == {"5", "3", " 7 ", "0", "-2", "abc", ""}

\* cells combined pairwise in two-cell rows
CellPool ==
    {Cell("n_appr_cars_t", "5"), Cell("s_appr_truck_r", "3"),
     Cell("w_appr_peds_t", "5"), Cell("n_appr_cars_r", "0"),
     Cell("x_appr_cars_t", "5"), Cell("E_APPR_bus_L", " 7 ")}

\* rows that vary one thing at a time, and two-cell rows
RowPool ==
    {Row("2024-01-01T08:00:00", "2024-01-01T08:15:00", <<Cell(k, "5")>>) : k \in KeyPool}
    \cup {Row("2024-01-01T08:00:00", "2024-01-01T08:15:00", <<Cell("n_appr_cars_t", v)>>) :
            v \in ValuePool}
    \cup {Row(st, et, <<Cell("n_appr_cars_t", "5")>>) :
            st \in TimeStrings, et \in {"2024-01-01T08:00:00", "2024-01-01T08:30:00", "n/a"}}
    \cup {Row("2024-01-01T08:15:00", "2024-01-01T08:30:00", <<cc[1], cc[2]>>) :
            cc \in {x \in CellPool \X CellPool : x[1].key # x[2].key}}

\* rows that surround the varied row
SmallRowPool ==
    {Row("2024-01-01T08:00:00", "2024-01-01T08:15:00",
         <<Cell("n_appr_cars_t", "5"), Cell("w_appr_peds_t", "3")>>),
     Row("2024-01-01T08:15:00", "2024-01-01T08:30:00", <<Cell("n_appr_cars_t", "3")>>),
     Row("2024-01-01T08:00:00", "2024-01-01T08:15:00", <<Cell("w_appr_bus_t", "5")>>),
     Row("2024-01-01T07:45:00", "2024-01-01T08:15:00", <<Cell("n_appr_cars_t", "5")>>),
     Row("n/a", "2024-01-01T08:15:00", <<Cell("w_appr_bus_t", "5")>>)}

SeqsUpTo(S, n) == UNION {[1..k -> S] : k \in 0..n}

RowsInputs ==
    SeqsUpTo(SmallRowPool, MaxRows)
    \cup {p \o <<b>> \o s : p \in SeqsUpTo(SmallRowPool, MaxRows - 1),
                           s \in SeqsUpTo(SmallRowPool, MaxRows - 1),
                           b \in RowPool}

\* every direction mapped, several edges per direction
FullMapping ==
    [incoming |-> [north |-> <<"e1", "e9">>, south |-> <<"e3">>,
                   east |-> <<"e5">>, west |-> <<"e7">>],
     outgoing |-> [north |-> <<"e4">>, south |-> <<"e2", "e8">>,
                   east |-> <<"e6">>, west |-> <<"e0">>]]

\* north -> south only
NorthSouthMapping ==
    [incoming |-> [north |-> <<"e1">>], outgoing |-> [south |-> <<"e2">>]]

NoMapping == [incoming |-> EmptyDict, outgoing |-> EmptyDict]

MappingPool ==
    {FullMapping,
     NorthSouthMapping,
     \* outgoing south absent
     [incoming |-> [north |-> <<"e1">>, west |-> <<"e7">>],
      outgoing |-> [east |-> <<"e6">>]],
     \* outgoing south present with an empty list
     [incoming |-> [north |-> <<"e1">>, west |-> <<"e7">>],
      outgoing |-> [south |-> <<>>, east |-> <<"e6">>]],
     \* nothing mapped
     [incoming |-> EmptyDict, outgoing |-> EmptyDict]}

WindowPool == {<<28800, 30600>>, <<29700, 30600>>}

(***************************************************************************)
(* Specification SpecFlows: one call of generate_flows_for_intersection    *)
(***************************************************************************)

(***************************************************************************)
(* The street network (sumolib net) of the model                           *)
(***************************************************************************)

\* net.getNodes(), in iteration order
NetNodes ==
    <<[id |-> "J1", x |-> 100, y |-> 100],
      [id |-> "N1", x |-> 100, y |-> 200],
      [id |-> "E1", x |-> 200, y |-> 100],
      [id |-> "S1", x |-> 100, y |-> 0],
      [id |-> "W1", x |-> 0, y |-> 100],
      [id |-> "J2", x |-> 300, y |-> 100],
      [id |-> "N2", x |-> 300, y |-> 200],
      [id |-> "S2", x |-> 300, y |-> 0]>>

\* the edges, in the order the network lists them; type "" is no type
NetEdges ==
    <<[id |-> "n1_j1", from |-> "N1", to |-> "J1", type |-> "highway.residential"],
      [id |-> "j1_n1", from |-> "J1", to |-> "N1", type |-> "highway.residential"],
      [id |-> "foot_n1_j1", from |-> "N1", to |-> "J1", type |-> "highway.footway"],
      [id |-> "e1_j1", from |-> "E1", to |-> "J1", type |-> "highway.primary"],
      [id |-> "j1_e1", from |-> "J1", to |-> "E1", type |-> "highway.primary"],
      [id |-> "rail_e1_j1", from |-> "E1", to |-> "J1", type |-> "railway.rail"],
      [id |-> "s1_j1", from |-> "S1", to |-> "J1", type |-> "highway.residential"],
      [id |-> "j1_s1", from |-> "J1", to |-> "S1", type |-> "highway.residential"],
      [id |-> "j1_s1_b", from |-> "J1", to |-> "S1", type |-> "highway.primary"],
      [id |-> "plain_s1_j1", from |-> "S1", to |-> "J1", type |-> ""],
      [id |-> "w1_j1", from |-> "W1", to |-> "J1", type |-> "highway.primary"],
      [id |-> "j1_w1", from |-> "J1", to |-> "W1", type |-> "highway.primary"],
      [id |-> "n2_j2", from |-> "N2", to |-> "J2", type |-> "highway.residential"],
      [id |-> "j2_s2", from |-> "J2", to |-> "S2", type |-> "highway.residential"],
      [id |-> "e1_j2", from |-> "E1", to |-> "J2", type |-> "highway.primary"],
      [id |-> "j2_e1", from |-> "J2", to |-> "E1", type |-> "highway.primary"]>>

SeqRange(q) == {q[i] : i \in 1..Len(q)}

\* the network of the model
Network == [nodes |-> NetNodes, edges |-> NetEdges]

\* find_intersection's result before it is called
NotFound == [raised |-> FALSE, error |-> NoneVal, node |-> NoneVal, prompted |-> FALSE]

IdleMap ==
    /\ net = Network
    /\ map_result = [raised |-> FALSE, mapping |-> [incoming |-> <<>>, outgoing |-> <<>>]]

IdleOverlap ==
    /\ overlap_intervals = <<>> /\ query_start = 0 /\ query_end = 0 /\ overlap_result = FALSE

IdleCache == put_record = NoneVal

IdleRepeat == prev_result = NoneVal

IdleLocate == locate_lon = 0 /\ locate_lat = 0 /\ user_reply = NoneVal /\ find_result = NotFound

IdleTurn ==
    /\ key_prefix = NoneVal /\ key_movement = NoneVal
    /\ from_dir = NoneVal /\ to_dir = NoneVal

IdleClassify == angle = 0 /\ direction = NoneVal

IdleMerge == intervals = <<>> /\ merged_intervals = <<>>

IdleCall ==
    /\ mapping = [incoming |-> EmptyDict, outgoing |-> EmptyDict]
    /\ rows = <<>>
    /\ intersection_id = NoneVal
    /\ gen_result = [raised |-> FALSE, flows |-> <<>>]

IdleFlows == IdleCall /\ simulation_start_dt = 0 /\ simulation_end_dt = 0

IdleRun ==
    /\ input_fault = "none" /\ intersections = <<>>
    /\ data_rows_by_id = EmptyDict
    /\ idx = 0 /\ input_coords = <<>>
    /\ availability_intervals = <<>>
    /\ cur_mapping = [incoming |-> EmptyDict, outgoing |-> EmptyDict]
    /\ routes_root = <<>> /\ incomplete_data = <<>> /\ simulation_details = <<>>
    /\ emitted = <<>> /\ replies = <<>> /\ synth_for = 0

IdleDb ==
    /\ db_file = [status |-> "missing", doc |-> EmptyDict]
    /\ db_file_at_start = db_file
    /\ processed_db = EmptyDict

IdlePipe == IdleRun /\ IdleDb /\ junction_id = NoneVal

IdleWriters ==
    writer_put = <<>> /\ writer_pc = <<>> /\ writer_db = <<>> /\ writer_log = <<>>

IdleAvail == csv_rows = <<>> /\ util_availability = <<>>

IdleExtra ==
    /\ IdleMap /\ IdleOverlap /\ IdleCache /\ IdleRepeat /\ IdleLocate
    /\ IdleWriters /\ IdleAvail

InitFlows ==
    /\ pc = "call"
    /\ mapping \in MappingPool
    /\ rows \in RowsInputs
    /\ Len(rows) <= MaxRows
    /\ intersection_id = "J1"
    /\ \E w \in WindowPool : simulation_start_dt = w[1] /\ simulation_end_dt = w[2]
    /\ gen_result = [raised |-> FALSE, flows |-> <<>>]
    /\ IdleTurn /\ IdleClassify /\ IdleMerge /\ IdlePipe /\ IdleExtra

\* the call returns its list
GenerateFlowsReturns ==
    /\ pc = "call"
    /\ LET res == GenerateFlows(mapping, rows, intersection_id,
                                simulation_start_dt, simulation_end_dt)
       IN /\ ~res.raised
          /\ gen_result' = res
    /\ pc' = "returned"
    /\ UNCHANGED <<mapping, rows, intersection_id, simulation_start_dt,
                   simulation_end_dt, turnVars, classifyVars, mergeVars, pipeVars,
                   extraVars>>

\* the call raises ValueError (simulation.py:77)
GenerateFlowsRaises ==
    /\ pc = "call"
    /\ LET res == GenerateFlows(mapping, rows, intersection_id,
                                simulation_start_dt, simulation_end_dt)
       IN /\ res.raised
          /\ gen_result' = res
    /\ pc' = "raised"
    /\ UNCHANGED <<mapping, rows, intersection_id, simulation_start_dt,
                   simulation_end_dt, turnVars, classifyVars, mergeVars, pipeVars,
                   extraVars>>

NextFlows == GenerateFlowsReturns \/ GenerateFlowsRaises

SpecFlows == InitFlows /\ [][NextFlows]_vars

(***************************************************************************)
(* Claims about generate_flows_for_intersection (under SpecFlows)          *)
(***************************************************************************)

Called == pc \in {"returned", "raised"}

\* the (row index, cell index) pairs of the input
CellPositions ==
    UNION {{<<r, k>> : k \in 1..Len(rows[r].cells)} : r \in 1..Len(rows)}

RowStart(r) == FromIsoFormat(rows[r].start_time)
RowEnd(r) == FromIsoFormat(rows[r].end_time)

\* the row's start time lies in [simStart, simEnd) and both times parse
RowStartsInWindow(r) ==
    /\ RowStart(r).ok /\ RowEnd(r).ok
    /\ simulation_start_dt <= RowStart(r).t
    /\ RowStart(r).t < simulation_end_dt

\* qualifying pairs: row in the window, key passes parsing, vehicle-class
\* and positive-count checks
Qualifying ==
    {q \in CellPositions :
        /\ RowStartsInWindow(q[1])
        /\ ~DecodeCell(rows[q[1]].cells[q[2]].key, rows[q[1]].cells[q[2]].value).skip}

\* position of a qualifying pair in row order, then key order
Rank(q) ==
    Cardinality({x \in Qualifying : x[1] < q[1] \/ (x[1] = q[1] /\ x[2] <= q[2])})

FlowMatches(f, q) ==
    LET c == rows[q[1]].cells[q[2]]
        d == DecodeCell(c.key, c.value)
        b == RowStart(q[1]).t - simulation_start_dt
    IN /\ f.begin = b
       /\ f.end = b + (RowEnd(q[1]).t - RowStart(q[1]).t)
       /\ f.number = IntOf(c.value).n
       /\ f.from = Head(mapping.incoming[d.from_dir])
       /\ f.to = Head(mapping.outgoing[d.to_dir])
       /\ f.type = d.vehicle

SpecExampleInput ==
    /\ rows = <<Row("2024-01-01T08:00:00", "2024-01-01T08:15:00",
                    <<Cell("n_appr_cars_t", "5")>>)>>
    /\ simulation_start_dt = 28800 /\ simulation_end_dt = 30600
    /\ mapping = [incoming |-> [north |-> <<"e1">>], outgoing |-> [south |-> <<"e2">>]]

\* C3: when the call returns, each qualifying (row, key) pair has emitted
\* exactly one flow, in row-then-key order, with begin = rowStart - simStart,
\* end = begin + (rowEnd - rowStart), number = the count, from/to = the first
\* edge of the origin/destination direction and type = the vehicle class; the
\* end-to-end example of the specification yields its one flow.
C3_OneFlowPerQualifyingPair ==
    pc = "returned" =>
        /\ Len(gen_result.flows) = Cardinality(Qualifying)
        /\ \A q \in Qualifying : FlowMatches(gen_result.flows[Rank(q)], q)
        /\ SpecExampleInput =>
             /\ Len(gen_result.flows) = 1
             /\ gen_result.flows[1].begin = 0 /\ gen_result.flows[1].end = 900
             /\ gen_result.flows[1].number = 5 /\ gen_result.flows[1].type = "car"
             /\ gen_result.flows[1].from = "e1" /\ gen_result.flows[1].to = "e2"

C3_Witness ==
    /\ pc = "returned" /\ Len(rows) = 2
    /\ Cardinality(Qualifying) = 3
    /\ \E q \in Qualifying : Len(mapping.incoming[
           DecodeCell(rows[q[1]].cells[q[2]].key, rows[q[1]].cells[q[2]].value).from_dir]) = 2

C3_ExampleWitness == pc = "returned" /\ SpecExampleInput

\* the rows whose start time lies in the window, in order
RECURSIVE RowsInWindowFrom(_)
RowsInWindowFrom(r) ==
    IF r > Len(rows) THEN <<>>
    ELSE IF RowStartsInWindow(r) THEN <<rows[r]>> \o RowsInWindowFrom(r + 1)
    ELSE RowsInWindowFrom(r + 1)

\* C4: rows whose start is outside [simStart, simEnd) or whose times do not
\* parse contribute nothing: the outcome is that of the in-window rows alone;
\* every flow has 0 <= begin < simEnd - simStart and number >= 1.
C4_OnlyRowsStartingInWindow ==
    Called =>
        /\ gen_result = GenerateFlows(mapping, RowsInWindowFrom(1), intersection_id,
                                      simulation_start_dt, simulation_end_dt)
        /\ \A i \in 1..Len(gen_result.flows) :
              /\ 0 <= gen_result.flows[i].begin
              /\ gen_result.flows[i].begin < simulation_end_dt - simulation_start_dt
              /\ gen_result.flows[i].number >= 1
        /\ (\A r \in 1..Len(rows) : ~RowStartsInWindow(r)) =>
              (pc = "returned" /\ gen_result.flows = <<>>)

\* a row overlapping the window but starting before it, dropped next to a
\* row that starts inside
C4_Witness ==
    /\ pc = "returned" /\ Len(rows) = 2
    /\ simulation_start_dt = 28800
    /\ rows[1].start_time = "2024-01-01T07:45:00" /\ rows[1].end_time = "2024-01-01T08:15:00"
    /\ RowStartsInWindow(2)
    /\ Len(gen_result.flows) = 1

\* C6: every flow's type is car, truck or bus: car exactly when the vehicle
\* token of its key is "cars", truck exactly for "truck", bus exactly for
\* "bus"; no key with another token has a flow.
VehicleToken(key) ==
    LET parts == Split(key) IN
    IF Len(parts) = 3 THEN parts[2] ELSE IF Len(parts) = 4 THEN parts[3] ELSE NoneVal

C6_VehicleVocabulary ==
    Called =>
        \A i \in 1..Len(gen_result.flows) :
            LET f == gen_result.flows[i]
                tok == VehicleToken(f.id[2])
            IN /\ f.type \in {"car", "truck", "bus"}
               /\ (f.type = "car") <=> (tok = "cars")
               /\ (f.type = "truck") <=> (tok = "truck")
               /\ (f.type = "bus") <=> (tok = "bus")

C6_Witness ==
    /\ pc = "returned"
    /\ \E r \in 1..Len(rows) : \E k \in 1..Len(rows[r].cells) :
          /\ RowStartsInWindow(r)
          /\ VehicleToken(rows[r].cells[k].key) \in {"peds", "car", "Cars", "bike"}
          /\ IntOf(rows[r].cells[k].value).n > 0
    /\ \E i \in 1..Len(gen_result.flows) : gen_result.flows[i].type = "truck"

\* the input rows without the cells that satisfy Dropped
StripCells(rs, Dropped(_)) ==
    [r \in 1..Len(rs) |->
        [rs[r] EXCEPT !.cells = SelectSeq(rs[r].cells, LAMBDA c : ~Dropped(c))]]

BadCount(c) == ~IntOf(c.value).ok \/ IntOf(c.value).n <= 0

\* the key is a metadata column or does not match
\* {n,s,e,w}_[appr_]{vehicleToken}_{r,l,t}, letters and "appr" compared as
\* written in the claim (lower case)
UnparseableAsWritten(c) ==
    LET parts == Split(c.key) IN
    \/ c.key \in ignore_keys
    \/ Len(parts) \notin {3, 4}
    \/ Len(parts) = 4 /\ parts[2] # "appr"
    \/ parts[1] \notin {"n", "s", "e", "w"}
    \/ parts[Len(parts)] \notin {"r", "l", "t"}

\* the same, letters and "appr" compared regardless of case
UnparseableAnyCase(c) ==
    LET parts == Split(c.key) IN
    \/ c.key \in ignore_keys
    \/ Len(parts) \notin {3, 4}
    \/ Len(parts) = 4 /\ Lower(parts[2]) # "appr"
    \/ Lower(parts[1]) \notin {"n", "s", "e", "w"}
    \/ Lower(parts[Len(parts)]) \notin {"r", "l", "t"}

SkippedAsWritten(c) == UnparseableAsWritten(c) \/ BadCount(c)
SkippedAnyCase(c) == UnparseableAnyCase(c) \/ BadCount(c)

\* the skipped keys are local: the call's outcome (flows and failure alike) is
\* the outcome on the rows without them (so none of them adds a flow or
\* fails the call), and rows made of them alone return no flow
SkipsAreLocal(Dropped(_)) ==
    Called =>
        /\ gen_result = GenerateFlows(mapping, StripCells(rows, Dropped), intersection_id,
                                      simulation_start_dt, simulation_end_dt)
        /\ (\A q \in CellPositions : Dropped(rows[q[1]].cells[q[2]])) =>
              (pc = "returned" /\ gen_result.flows = <<>>)

\* C5 as stated: a key that is a metadata column, does not match the grammar
\* {n,s,e,w}_[appr_]{vehicleToken}_{r,l,t} as written, or has a non-integer,
\* zero or negative count produces no flow, never fails the intersection and
\* leaves the flows of the other keys and rows unchanged.
C5_AsStated == SkipsAreLocal(SkippedAsWritten)

\* C5 (amended): the same with the origin letter, the turn letter and "appr"
\* compared case-insensitively.
C5_KeySkipsAreLocal == SkipsAreLocal(SkippedAnyCase)

\* two skipped keys in a row next to a row whose key qualifies, under a
\* mapping that lacks the directions the skipped keys would need
C5_Witness ==
    /\ pc = "returned" /\ Len(rows) = 2
    /\ Len(gen_result.flows) = 1
    /\ "south" \notin DOMAIN mapping.outgoing
    /\ \E r \in 1..Len(rows) :
          /\ RowStartsInWindow(r) /\ Len(rows[r].cells) = 2
          /\ \A k \in 1..2 : SkippedAnyCase(rows[r].cells[k])
          /\ \E k \in 1..2 : rows[r].cells[k].key = "n_appr_cars_r"

(***************************************************************************)
(* Specification SpecTurn: simulation.py:72-73 on one key's letters        *)
(***************************************************************************)

PrefixPool == {"n", "s", "e", "w", "N", "S", "E", "W", "x"}
MovementPool == {"r", "t", "l", "R", "T", "L", "u"}

InitTurn ==
    /\ pc = "decode"
    /\ key_prefix \in PrefixPool
    /\ key_movement \in MovementPool
    /\ from_dir = NoneVal /\ to_dir = NoneVal
    /\ IdleFlows /\ IdleClassify /\ IdleMerge /\ IdlePipe /\ IdleExtra

ResolveDirections ==
    /\ pc = "decode"
    /\ from_dir' = FromDirOf(key_prefix)
    /\ to_dir' = ToDirOf(key_prefix, key_movement)
    /\ pc' = "resolved"
    /\ UNCHANGED <<key_prefix, key_movement, flowVars, classifyVars, mergeVars, pipeVars, extraVars>>

NextTurn == ResolveDirections

SpecTurn == InitTurn /\ [][NextTurn]_vars

\* the compass, clockwise
Compass == <<"north", "east", "south", "west">>
CompassIndex(d) == CHOOSE i \in 1..4 : Compass[i] = d
Rotate(d, quarterTurns) == Compass[((CompassIndex(d) - 1 + quarterTurns) % 4) + 1]
Opposite(d) == Rotate(d, 2)
DirectionNamed(letter) ==
    CASE letter = "n" -> "north" [] letter = "s" -> "south"
      [] letter = "e" -> "east" [] letter = "w" -> "west"
\* clockwise quarter turns each turn letter adds to the origin direction
TurnOffset(letter) == CASE letter = "l" -> 1 [] letter = "t" -> 2 [] letter = "r" -> 3

KnownLetters ==
    /\ Lower(key_prefix) \in {"n", "s", "e", "w"}
    /\ Lower(key_movement) \in {"r", "t", "l"}

\* C7: for a known origin letter and turn letter, the origin direction is the
\* compass direction the letter names; the destination is the origin rotated
\* by an offset that depends on the turn letter alone (through: the opposite
\* direction; right and left: the two perpendicular directions, opposite to
\* each other), so each turn's table is a bijection, and the destination is
\* never the origin direction.
C7_TurnTableIsRotation ==
    (pc = "resolved" /\ KnownLetters) =>
        /\ from_dir = DirectionNamed(Lower(key_prefix))
        /\ to_dir = Rotate(from_dir, TurnOffset(Lower(key_movement)))
        /\ to_dir # from_dir
        /\ Lower(key_movement) = "t" => to_dir = Opposite(from_dir)
        /\ Lower(key_movement) \in {"r", "l"} =>
              /\ to_dir \notin {from_dir, Opposite(from_dir)}
              /\ Opposite(to_dir) =
                    ToDirOf(key_prefix, IF Lower(key_movement) = "r" THEN "l" ELSE "r")
        /\ \A p \in {"n", "s", "e", "w"} :
              p # Lower(key_prefix) => ToDirOf(p, key_movement) # to_dir

C7_Witness ==
    /\ pc = "resolved" /\ key_prefix = "w" /\ key_movement = "r"
    /\ from_dir = "west" /\ to_dir = "south"

(***************************************************************************)
(* classify_direction (edge_mapping.py:12-20)                              *)
(* An integer angle a stands for every bearing in [a, a+1): the thresholds *)
(* are whole degrees, so the comparisons cannot tell them apart.           *)
(***************************************************************************)

\* mutant: the first bucket is closed at 45
ClassifyDirection_Closed45(a) ==
    IF a >= 315 \/ a <= 45 THEN "east"
    ELSE IF a < 135 THEN "north"
    ELSE IF a < 225 THEN "west"
    ELSE "south"

ClassifyDirection(a) ==
    IF a >= 315 \/ a < 45 THEN "east"
    ELSE IF a < 135 THEN "north"
    ELSE IF a < 225 THEN "west"
    ELSE "south"

InitClassify ==
    /\ pc = "classify"
    /\ angle \in 0..MaxAngle
    /\ direction = NoneVal
    /\ IdleFlows /\ IdleTurn /\ IdleMerge /\ IdlePipe /\ IdleExtra

Classify ==
    /\ pc = "classify"
    /\ direction' = ClassifyDirection(angle)
    /\ pc' = "classified"
    /\ UNCHANGED <<angle, flowVars, turnVars, mergeVars, pipeVars, extraVars>>

NextClassify == Classify

SpecClassify == InitClassify /\ [][NextClassify]_vars

\* C8: every angle of [0,360) is classified as exactly one of east, north,
\* west, south: [315,360) and [0,45) east, [45,135) north, [135,225) west,
\* [225,315) south; so 0, 90, 180, 270 give east, north, west, south and the
\* boundaries 45, 135, 225, 315 give north, west, south, east.
C8_ClassifyPartition ==
    (pc = "classified" /\ angle >= 0 /\ angle < 360) =>
        /\ direction \in {"east", "north", "west", "south"}
        /\ direction = "east" <=> (angle >= 315 \/ angle < 45)
        /\ direction = "north" <=> (45 <= angle /\ angle < 135)
        /\ direction = "west" <=> (135 <= angle /\ angle < 225)
        /\ direction = "south" <=> (225 <= angle /\ angle < 315)
        /\ angle = 0 => direction = "east"
        /\ angle = 90 => direction = "north"
        /\ angle = 180 => direction = "west"
        /\ angle = 270 => direction = "south"
        /\ angle = 45 => direction = "north"
        /\ angle = 135 => direction = "west"
        /\ angle = 225 => direction = "south"
        /\ angle = 315 => direction = "east"

C8_Witness == pc = "classified" /\ angle = 45 /\ direction = "north"

(***************************************************************************)
(* Availability intervals: sort and merge (simulation.py:244-254,          *)
(* utils.py:76-86).  An interval is a pair <<st, et>> of datetimes.        *)
(***************************************************************************)

Max(a, b) == IF a >= b THEN a ELSE b

\* x placed after the elements whose start is <= its own (list.sort is stable)
RECURSIVE InsertByStart(_, _)
InsertByStart(sorted, x) ==
    IF sorted = <<>> THEN <<x>>
    ELSE IF x[1] < Head(sorted)[1] THEN <<x>> \o sorted
    ELSE <<Head(sorted)>> \o InsertByStart(Tail(sorted), x)

RECURSIVE SortFrom(_, _, _)
SortFrom(s, i, acc) ==
    IF i > Len(s) THEN acc ELSE SortFrom(s, i + 1, InsertByStart(acc, s[i]))

\* intervals.sort(key=lambda x: x[0])
SortByStart(s) == SortFrom(s, 1, <<>>)

\* mutant: touching intervals (st = last_et) are not merged
MergeStep_StrictOverlap(merged, x) ==
    IF merged = <<>> THEN <<x>>
    ELSE LET last == merged[Len(merged)] IN
         IF x[1] < last[2]
         THEN [merged EXCEPT ![Len(merged)] = <<last[1], Max(last[2], x[2])>>]
         ELSE Append(merged, x)

\* one iteration of the merge loop
MergeStep(merged, x) ==
    IF merged = <<>> THEN <<x>>
    ELSE LET last == merged[Len(merged)] IN
         IF x[1] <= last[2]
         THEN [merged EXCEPT ![Len(merged)] = <<last[1], Max(last[2], x[2])>>]
         ELSE Append(merged, x)

RECURSIVE MergeFrom(_, _, _)
MergeFrom(s, i, merged) ==
    IF i > Len(s) THEN merged ELSE MergeFrom(s, i + 1, MergeStep(merged, s[i]))

\* the merged list of an unsorted list of intervals
MergeIntervals(s) == MergeFrom(SortByStart(s), 1, <<>>)

ExampleIntervals == <<<<10, 20>>, <<15, 25>>, <<30, 40>>>>

IntervalInputs ==
    SeqsUpTo((0..MaxTime) \X (0..MaxTime), MaxIntervals)
    \cup {ExampleIntervals, <<<<30, 40>>, <<15, 25>>, <<10, 20>>>>}

InitMerge ==
    /\ pc = "collected"
    /\ intervals \in IntervalInputs
    /\ merged_intervals = <<>>
    /\ IdleFlows /\ IdleTurn /\ IdleClassify /\ IdlePipe /\ IdleExtra

\* simulation.py:244-254
MergeAvailability ==
    /\ pc = "collected"
    /\ merged_intervals' = MergeIntervals(intervals)
    /\ pc' = "merged"
    /\ UNCHANGED <<intervals, flowVars, turnVars, classifyVars, pipeVars, extraVars>>

NextMerge == MergeAvailability

SpecMerge == InitMerge /\ [][NextMerge]_vars

Endpoints(s) == UNION {{s[i][1], s[i][2]} : i \in 1..Len(s)}
TimeSpan(s) ==
    IF s = <<>> THEN {}
    ELSE (CHOOSE a \in Endpoints(s) : \A b \in Endpoints(s) : a <= b)
         .. (CHOOSE a \in Endpoints(s) : \A b \in Endpoints(s) : a >= b)
\* the instant t lies in one of the intervals
CoversPoint(s, t) == \E i \in 1..Len(s) : s[i][1] <= t /\ t <= s[i][2]
\* the stretch from t to t+1 lies in one of the intervals
CoversStretch(s, t) == \E i \in 1..Len(s) : s[i][1] <= t /\ t + 1 <= s[i][2]

\* C9: the merged list is sorted ascending by start, each interval ends
\* before the next one starts (touching intervals are merged), and the
\* merged intervals cover exactly what the input intervals cover; the
\* example [(10,20),(15,25),(30,40)] merges to [(10,25),(30,40)].
C9_MergedIsSortedDisjointCover ==
    pc = "merged" =>
        /\ \A i \in 1..Len(merged_intervals) : \A j \in 1..Len(merged_intervals) :
              i < j => /\ merged_intervals[i][1] <= merged_intervals[j][1]
                       /\ merged_intervals[i][2] < merged_intervals[j][1]
        /\ \A t \in TimeSpan(intervals) :
              /\ CoversPoint(merged_intervals, t) <=> CoversPoint(intervals, t)
              /\ CoversStretch(merged_intervals, t) <=> CoversStretch(intervals, t)
        /\ Endpoints(merged_intervals) \subseteq Endpoints(intervals)
        /\ intervals = ExampleIntervals =>
              merged_intervals = <<<<10, 25>>, <<30, 40>>>>

\* an unsorted input of three intervals, two of them touching, merged in two
C9_Witness ==
    /\ pc = "merged" /\ Len(intervals) = 3 /\ Len(merged_intervals) = 2
    /\ intervals[1][1] > intervals[2][1]
    /\ \E i \in 1..3 : \E j \in 1..3 :
          /\ intervals[i][1] < intervals[i][2]
          /\ intervals[j][1] = intervals[i][2] /\ intervals[j][1] < intervals[j][2]

C9_ExampleWitness == pc = "merged" /\ intervals = ExampleIntervals

OrderingsOf(n) == {f \in [1..n -> 1..n] : \A i \in 1..n : \E j \in 1..n : f[j] = i}
Permuted(s, f) == [i \in 1..Len(s) |-> s[f[i]]]

\* C10: merging the merged list again returns it unchanged, and every
\* ordering of the input pairs merges to the same list.
C10_IdempotentOrderIndependent ==
    pc = "merged" =>
        /\ MergeIntervals(merged_intervals) = merged_intervals
        /\ \A f \in OrderingsOf(Len(intervals)) :
              MergeIntervals(Permuted(intervals, f)) = merged_intervals

\* the part of C10 that holds of every input: idempotence
C10_Idempotent ==
    pc = "merged" => MergeIntervals(merged_intervals) = merged_intervals

\* net.getNode(id) raises when the id is not a node
HasNode(id) == \E n \in SeqRange(net.nodes) : n.id = id
GetNode(id) == CHOOSE n \in SeqRange(net.nodes) : n.id = id

(***************************************************************************)
(* edge_mapping.py                                                         *)
(***************************************************************************)

\* "highway" in etype / "footway" in etype, on the edge types of the model
ContainsHighway(etype) ==
    etype \in {"highway.residential", "highway.primary", "highway.footway"}
ContainsFootway(etype) == etype \in {"highway.footway"}

\* mutant: the footway test is left out
IsEdgeForCars_AnyHighway(edge) == edge.type # "" /\ ContainsHighway(edge.type)

\* is_edge_for_cars
IsEdgeForCars(edge) ==
    edge.type # "" /\ ContainsHighway(edge.type) /\ ~ContainsFootway(edge.type)

\* compute_bearing in whole degrees, for vectors along the axes and the
\* diagonals (the vectors of the model's network)
ComputeBearing(x1, y1, x2, y2) ==
    LET dx == x2 - x1
        dy == y2 - y1
    IN CASE dx > 0 /\ dy = 0 -> 0
         [] dx > 0 /\ dy = dx -> 45
         [] dx = 0 /\ dy > 0 -> 90
         [] dx < 0 /\ dy = -dx -> 135
         [] dx < 0 /\ dy = 0 -> 180
         [] dx < 0 /\ dy = dx -> 225
         [] dx = 0 /\ dy < 0 -> 270
         [] dx > 0 /\ dy = -dx -> 315
         [] dx = 0 /\ dy = 0 -> 0

\* mutant: the bearing is taken from the edge's from-node to the junction
IncomingDirection_TowardJunction(junction, edge) ==
    ClassifyDirection(ComputeBearing(GetNode(edge.from).x, GetNode(edge.from).y,
                                     junction.x, junction.y))

\* the direction an incoming edge is filed under (edge_mapping.py:33-37):
\* the bearing from the junction to the edge's from-node
IncomingDirection(junction, edge) ==
    ClassifyDirection(ComputeBearing(junction.x, junction.y,
                                     GetNode(edge.from).x, GetNode(edge.from).y))

\* the direction an outgoing edge is filed under (edge_mapping.py:43-46)
OutgoingDirection(junction, edge) ==
    ClassifyDirection(ComputeBearing(junction.x, junction.y,
                                     GetNode(edge.to).x, GetNode(edge.to).y))

EdgeIds(edges) == [i \in 1..Len(edges) |-> edges[i].id]

\* setdefault(direction, []).append(edge id) over the edges in order
IncomingByDirection(junction, edges) ==
    [d \in {IncomingDirection(junction, e) : e \in SeqRange(edges)} |->
        EdgeIds(SelectSeq(edges, LAMBDA e : IncomingDirection(junction, e) = d))]

OutgoingByDirection(junction, edges) ==
    [d \in {OutgoingDirection(junction, e) : e \in SeqRange(edges)} |->
        EdgeIds(SelectSeq(edges, LAMBDA e : OutgoingDirection(junction, e) = d))]

\* mutant: a junction that is not in the network gets an empty mapping
MapJunctionEdges_EmptyOnMissing(jid) ==
    IF ~HasNode(jid)
    THEN [raised |-> FALSE, mapping |-> [incoming |-> EmptyDict, outgoing |-> EmptyDict]]
    ELSE LET junction == GetNode(jid)
             inc == SelectSeq(net.edges, LAMBDA e : e.to = jid /\ IsEdgeForCars(e))
             out == SelectSeq(net.edges, LAMBDA e : e.from = jid /\ IsEdgeForCars(e))
         IN [raised |-> FALSE,
             mapping |-> [incoming |-> IncomingByDirection(junction, inc),
                          outgoing |-> OutgoingByDirection(junction, out)]]

\* map_junction_edges: raised when the junction is not in the network
MapJunctionEdges(jid) ==
    IF ~HasNode(jid)
    THEN [raised |-> TRUE, mapping |-> [incoming |-> EmptyDict, outgoing |-> EmptyDict]]
    ELSE LET junction == GetNode(jid)
             inc == SelectSeq(net.edges, LAMBDA e : e.to = jid /\ IsEdgeForCars(e))
             out == SelectSeq(net.edges, LAMBDA e : e.from = jid /\ IsEdgeForCars(e))
         IN [raised |-> FALSE,
             mapping |-> [incoming |-> IncomingByDirection(junction, inc),
                          outgoing |-> OutgoingByDirection(junction, out)]]

\* float(cell) on the coordinate strings of the model, in hundredths of a
\* degree; anything else raises
FloatOf(v) ==
    CASE v = "-79.40" -> [ok |-> TRUE, x |-> -7940]
      [] v = "-79.39" -> [ok |-> TRUE, x |-> -7939]
      [] v = "-79.38" -> [ok |-> TRUE, x |-> -7938]
      [] v = "-79.20" -> [ok |-> TRUE, x |-> -7920]
      [] v = "43.65" -> [ok |-> TRUE, x |-> 4365]
      [] OTHER -> [ok |-> FALSE, x |-> 0]

\* net.convertLonLat2XY: the projection of the model's network
ConvertLonLat2XY(lon, lat) == <<100 + (lon + 7940) * 10, 100 + (lat - 4365) * 10>>

Tolerance == 10

\* squared distance: math.hypot compared through its square
Dist2(node, tx, ty) == (node.x - tx) * (node.x - tx) + (node.y - ty) * (node.y - ty)

\* mutant: a node as near as the closest so far replaces it
RECURSIVE NearestFrom_LastOnTie(_, _, _, _, _)
NearestFrom_LastOnTie(nodes, i, tx, ty, best) ==
    IF i > Len(nodes) THEN best
    ELSE IF best = 0 \/ Dist2(nodes[i], tx, ty) <= Dist2(nodes[best], tx, ty)
         THEN NearestFrom_LastOnTie(nodes, i + 1, tx, ty, i)
         ELSE NearestFrom_LastOnTie(nodes, i + 1, tx, ty, best)

\* the scan of edge_mapping.py:77-82 from node i on; best is the index of
\* closest_node (0: None)
RECURSIVE NearestFrom(_, _, _, _, _)
NearestFrom(nodes, i, tx, ty, best) ==
    IF i > Len(nodes) THEN best
    ELSE IF best = 0 \/ Dist2(nodes[i], tx, ty) < Dist2(nodes[best], tx, ty)
         THEN NearestFrom(nodes, i + 1, tx, ty, i)
         ELSE NearestFrom(nodes, i + 1, tx, ty, best)

\* input() has nothing to read and raises EOFError
NoInput == "EOFError"

\* reply.strip().lower() on the lines the model types at the prompt
StripLower(reply) ==
    CASE reply \in {"y", "Y", " y ", " Y "} -> "y"
      [] reply \in {"n", "N", " n "} -> "n"
      [] reply \in {"yes", "YES", " yes "} -> "yes"
      [] reply \in {"", "  "} -> ""
      [] OTHER -> reply

\* mutant: an out-of-tolerance node is accepted without asking
FindIntersection_SilentAccept(nodes, lon, lat, reply) ==
    LET t == ConvertLonLat2XY(lon, lat)
        best == NearestFrom(nodes, 1, t[1], t[2], 0)
    IN IF best = 0
       THEN [raised |-> TRUE, error |-> "no_nodes", node |-> NoneVal, prompted |-> FALSE]
       ELSE [raised |-> FALSE, error |-> NoneVal, node |-> nodes[best].id, prompted |-> FALSE]

\* find_intersection; reply is what input() returns if the prompt is shown
\* (prompted: the prompt was shown)
FindIntersection(nodes, lon, lat, reply) ==
    LET t == ConvertLonLat2XY(lon, lat)
        best == NearestFrom(nodes, 1, t[1], t[2], 0)
    IN IF best = 0
       THEN [raised |-> TRUE, error |-> "no_nodes", node |-> NoneVal, prompted |-> FALSE]
       ELSE IF Dist2(nodes[best], t[1], t[2]) > Tolerance * Tolerance
       THEN IF reply = NoInput
            THEN [raised |-> TRUE, error |-> "eof", node |-> NoneVal, prompted |-> TRUE]
            ELSE IF StripLower(reply) # "y"
            THEN [raised |-> TRUE, error |-> "declined", node |-> NoneVal, prompted |-> TRUE]
            ELSE [raised |-> FALSE, error |-> NoneVal, node |-> nodes[best].id, prompted |-> TRUE]
       ELSE [raised |-> FALSE, error |-> NoneVal, node |-> nodes[best].id, prompted |-> FALSE]

(***************************************************************************)
(* database.py                                                             *)
(***************************************************************************)

\* The cache file is [status, doc]: status is "missing", "empty" (size 0),
\* "corrupt" (not parseable) or "ok"; doc is the JSON document, an object of
\* JSON records.  A record's input_coordinates is None (<<>>) in Python when
\* the junction id was given in the input, and null in JSON.

\* json.dump of a record
JsonDumpRecord(r) == [r EXCEPT !.input_coordinates = IF @ = <<>> THEN "null" ELSE @]

\* json.load of a record
JsonLoadRecord(j) == [j EXCEPT !.input_coordinates = IF @ = "null" THEN <<>> ELSE @]

\* json.dump(db, f, indent=4)
JsonDump(db) == [j \in DOMAIN db |-> JsonDumpRecord(db[j])]

\* json.load(f)
JsonLoad(doc) == [j \in DOMAIN doc |-> JsonLoadRecord(doc[j])]

\* mutant: what can be read of an unparseable document is returned
LoadProcessedDb_Salvages(file) ==
    IF file.status \in {"ok", "corrupt"} THEN JsonLoad(file.doc) ELSE EmptyDict

\* load_processed_db: the document, or {} when the file is missing, empty
\* or not parseable
LoadProcessedDb(file) == IF file.status = "ok" THEN JsonLoad(file.doc) ELSE EmptyDict

\* mutant: an entry the document already has is left as it is (setdefault)
UpdateProcessedDb_KeepsEntry(file, jid, record) ==
    LET db == LoadProcessedDb(file)
    IN [status |-> "ok",
        doc |-> JsonDump([j \in DOMAIN db \cup {jid} |->
                            IF j \in DOMAIN db THEN db[j] ELSE record])]

\* update_processed_db: load, set the entry, rewrite the whole document
UpdateProcessedDb(file, jid, record) ==
    LET db == LoadProcessedDb(file)
    IN [status |-> "ok",
        doc |-> JsonDump([j \in DOMAIN db \cup {jid} |->
                            IF j = jid THEN record ELSE db[j]])]

\* mutant: the entry is set in a new dict, the document is not loaded
LocalDb_NoLoad(file, jid, record) == [j \in {jid} |-> record]

\* database.py:20-21: db = load_processed_db(); db[junction_id] = record
LocalDb(file, jid, record) ==
    LET db == LoadProcessedDb(file)
    IN [j \in DOMAIN db \cup {jid} |-> IF j = jid THEN record ELSE db[j]]

\* database.py:23: open(PROCESSED_DB_PATH, "w") leaves the file with size 0
Truncated == [status |-> "empty", doc |-> EmptyDict]

\* database.py:24: what the file may hold after json.dump(db, f) on a handle
\* opened before: the document when the file is as open() left it; when
\* another handle has written since, the document or, if the other text was
\* longer, text that does not parse
DumpInto(file, db) ==
    IF file.status = "empty"
    THEN {[status |-> "ok", doc |-> JsonDump(db)]}
    ELSE {[status |-> "ok", doc |-> JsonDump(db)],
          [status |-> "corrupt", doc |-> JsonDump(db)]}

(***************************************************************************)
(* Availability intervals of an intersection (simulation.py:230-271)       *)
(***************************************************************************)

\* strftime("%Y-%m-%d %H:%M:%S")
Strftime(t) ==
    CASE t = 600 -> "2024-01-01 00:10:00"
      [] t = 1500 -> "2024-01-01 00:25:00"
      [] t = 1800 -> "2024-01-01 00:30:00"
      [] t = 2400 -> "2024-01-01 00:40:00"
      [] t = 27900 -> "2024-01-01 07:45:00"
      [] t = 28800 -> "2024-01-01 08:00:00"
      [] t = 29700 -> "2024-01-01 08:15:00"
      [] t = 30600 -> "2024-01-01 08:30:00"
      [] t = 31500 -> "2024-01-01 08:45:00"

\* datetime.strptime(s, "%Y-%m-%d %H:%M:%S")
Strptime(s) ==
    CASE s = "2024-01-01 00:10:00" -> [ok |-> TRUE, t |-> 600]
      [] s = "2024-01-01 00:25:00" -> [ok |-> TRUE, t |-> 1500]
      [] s = "2024-01-01 00:30:00" -> [ok |-> TRUE, t |-> 1800]
      [] s = "2024-01-01 00:40:00" -> [ok |-> TRUE, t |-> 2400]
      [] s = "2024-01-01 07:45:00" -> [ok |-> TRUE, t |-> 27900]
      [] s = "2024-01-01 08:00:00" -> [ok |-> TRUE, t |-> 28800]
      [] s = "2024-01-01 08:15:00" -> [ok |-> TRUE, t |-> 29700]
      [] s = "2024-01-01 08:30:00" -> [ok |-> TRUE, t |-> 30600]
      [] s = "2024-01-01 08:45:00" -> [ok |-> TRUE, t |-> 31500]
      [] OTHER -> [ok |-> FALSE, t |-> 0]

\* mutant: closed comparison, a window that touches an interval overlaps it
RECURSIVE TimeOverlapsFrom_Closed(_, _, _, _)
TimeOverlapsFrom_Closed(ivs, i, sim_start, sim_end) ==
    IF i > Len(ivs) THEN FALSE
    ELSE LET interval_start == Strptime(ivs[i].start)
             interval_end == Strptime(ivs[i].end)
         IN IF ~interval_start.ok \/ ~interval_end.ok
            THEN TimeOverlapsFrom_Closed(ivs, i + 1, sim_start, sim_end)
            ELSE IF sim_start <= interval_end.t /\ sim_end >= interval_start.t THEN TRUE
            ELSE TimeOverlapsFrom_Closed(ivs, i + 1, sim_start, sim_end)

\* time_overlaps, from interval i on
RECURSIVE TimeOverlapsFrom(_, _, _, _)
TimeOverlapsFrom(ivs, i, sim_start, sim_end) ==
    IF i > Len(ivs) THEN FALSE
    ELSE LET interval_start == Strptime(ivs[i].start)
             interval_end == Strptime(ivs[i].end)
         IN IF ~interval_start.ok \/ ~interval_end.ok
            THEN TimeOverlapsFrom(ivs, i + 1, sim_start, sim_end)
            ELSE IF sim_start < interval_end.t /\ sim_end > interval_start.t THEN TRUE
            ELSE TimeOverlapsFrom(ivs, i + 1, sim_start, sim_end)

TimeOverlaps(ivs, sim_start, sim_end) == TimeOverlapsFrom(ivs, 1, sim_start, sim_end)

\* the (st, et) pairs of the rows whose two times parse, in row order
RowIntervals(rs) ==
    LET good == SelectSeq(rs, LAMBDA r : FromIsoFormat(r.start_time).ok
                                          /\ FromIsoFormat(r.end_time).ok)
    IN [i \in 1..Len(good) |->
          <<FromIsoFormat(good[i].start_time).t, FromIsoFormat(good[i].end_time).t>>]

\* availability_intervals: the merged intervals as strings
FormatIntervals(merged) ==
    [i \in 1..Len(merged) |->
        [start |-> Strftime(merged[i][1]), end |-> Strftime(merged[i][2])]]

(***************************************************************************)
(* Inputs of simulate_simulation drawn by the model                        *)
(***************************************************************************)

CsvRow(cid, st, et, lon, lat, cells) ==
    [centreline_id |-> cid, start_time |-> st, end_time |-> et,
     longitude |-> lon, latitude |-> lat, cells |-> cells]

\* the movement columns of the CSV file, in column order
Counts(px, n_cars_t, s_truck_r, w_bus_t, w_peds_t) ==
    <<Cell("px", px), Cell("n_appr_cars_t", n_cars_t), Cell("s_appr_truck_r", s_truck_r),
      Cell("w_appr_bus_t", w_bus_t), Cell("w_appr_peds_t", w_peds_t)>>

\* the rows of the CSV file, in file order
CsvFile ==
    <<CsvRow("c1", "2024-01-01T08:00:00", "2024-01-01T08:15:00", "-79.40", "43.65",
             Counts("11", "5", "3", "0", "3")),
      CsvRow("c2", "2024-01-01T08:00:00", "2024-01-01T08:15:00", "-79.20", "43.65",
             Counts("12", "5", "0", "0", "5")),
      CsvRow("c3", "n/a", "n/a", "", "",
             Counts("13", "5", "0", "0", "0")),
      CsvRow(" c1 ", "2024-01-01T08:15:00", "2024-01-01T08:30:00", "-79.40", "43.65",
             Counts("11", "3", "0", " 7 ", "0")),
      CsvRow("", "2024-01-01T08:00:00", "2024-01-01T08:15:00", "-79.40", "43.65",
             Counts("", "5", "5", "5", "5")),
      CsvRow("c4", "2024-01-01T07:45:00", "2024-01-01T08:00:00", "-79.39", "43.65",
             Counts("14", "5", "0", "0", "0")),
      CsvRow("c2", "2024-01-01T08:15:00", "2024-01-01T08:30:00", "-79.20", "43.65",
             Counts("12", "3", "0", "5", "0")),
      CsvRow("c6", "2024-01-01T08:15:00", "2024-01-01T08:30:00", "-79.38", "43.65",
             Counts("16", "5", "3", "abc", "0")),
      CsvRow("c8", "2024-01-01T07:45:00", "2024-01-01T08:15:00", "-79.40", "43.65",
             Counts("18", "5", "0", "0", "0"))>>

\* str(...).strip() on the identifiers of the model
Strip(v) == IF v = " c1 " THEN "c1" ELSE v

\* data_rows_by_id as built at simulation.py:180-184
GroupRows(csv) ==
    [id \in {Strip(r.centreline_id) : r \in SeqRange(csv)} \ {""} |->
        SelectSeq(csv, LAMBDA r : Strip(r.centreline_id) = id)]

\* data_rows_by_id.get(unique_id, [])
RowsOf(byId, id) == IF id \in DOMAIN byId THEN byId[id] ELSE <<>>

Inter(cid, jid, has, m, name) ==
    [centreline_id |-> cid, intersection_id |-> jid, has_mapped_edges |-> has,
     mapped_edges |-> m, location_name |-> name]

\* the intersection records the JSON file may hold ("" / NoneVal: the field
\* is absent or empty)
InterPool ==
    {Inter("c1", NoneVal, FALSE, NoMapping, "located, mapped by the edge mapper"),
     Inter(" c1 ", "J1", TRUE, FullMapping, "pre-known junction and mapping"),
     Inter("c2", NoneVal, FALSE, NoMapping, "edge mapper leaves a direction out"),
     Inter("c2", "J1", TRUE, NorthSouthMapping, "pre-known incomplete mapping"),
     Inter("", "J1", TRUE, FullMapping, "no centreline id"),
     Inter("c3", "J1", FALSE, NoMapping, "no row with valid times"),
     Inter("c3", NoneVal, FALSE, NoMapping, "coordinates do not parse"),
     Inter("c4", NoneVal, FALSE, NoMapping, "data before the window"),
     Inter("c5", NoneVal, FALSE, NoMapping, "no rows"),
     Inter("c6", NoneVal, FALSE, NoMapping, "out of tolerance"),
     Inter("c1", "JX", FALSE, NoMapping, "junction not in the network"),
     Inter("c1", "JX", TRUE, FullMapping, "mapping for a junction not in the network"),
     Inter("c8", "J1", FALSE, NoMapping, "row starts before the window")}

CacheRecord(jid, cid, name, coords, node, availability, m) ==
    [intersection_id |-> jid, centreline_id |-> cid, location_name |-> name,
     input_coordinates |-> coords,
     network_coordinates |-> [x |-> node.x, y |-> node.y],
     data_availability |-> availability, edge_mapping |-> m]

\* the cache documents a run may start with
DbFilePool ==
    {[status |-> "missing", doc |-> EmptyDict],
     [status |-> "empty", doc |-> EmptyDict],
     \* a document cut short: json.load raises on it
     [status |-> "corrupt",
      doc |-> JsonDump([j \in {"J1"} |->
                 CacheRecord("J1", "c9", "cut short", <<>>, NetNodes[1], <<>>,
                             NorthSouthMapping)])],
     [status |-> "ok",
      doc |-> JsonDump([j \in {"J1"} |->
                 CacheRecord("J1", "c9", "cached", <<>>, NetNodes[1], <<>>,
                             NorthSouthMapping)])],
     [status |-> "ok",
      doc |-> JsonDump([j \in {"J2"} |->
                 CacheRecord("J2", "c2", "cached", <<>>, NetNodes[6], <<>>,
                             FullMapping)])]}

\* what can go wrong while the input files are read (simulation.py:130-186)
FaultPool == {"json", "net", "csv", "no_centreline_id_column", "no_start_time_column"}

\* the simulation window of the run: 08:00 to 08:30
RunWindow == <<28800, 30600>>

(***************************************************************************)
(* simulate_simulation (simulation.py:96-369), one intersection's stages   *)
(***************************************************************************)

UniqueId(inter) == Strip(inter.centreline_id)

Skipped(reason) ==
    [skip |-> TRUE, reason |-> reason, junction_id |-> NoneVal, input_coords |-> <<>>]

\* simulation.py:190-228: the junction of the intersection, or the reason it
\* is skipped
Resolve(inter, byId, reply) ==
    IF inter.centreline_id = "" THEN Skipped("missing_centreline_id")
    ELSE IF inter.intersection_id # NoneVal
    THEN [skip |-> FALSE, reason |-> NoneVal, junction_id |-> inter.intersection_id,
          input_coords |-> <<>>]
    ELSE IF UniqueId(inter) \in DOMAIN byId /\ Len(RowsOf(byId, UniqueId(inter))) > 0
    THEN LET first_row == byId[UniqueId(inter)][1]
             target_lon == FloatOf(first_row.longitude)
             target_lat == FloatOf(first_row.latitude)
         IN IF ~target_lon.ok \/ ~target_lat.ok THEN Skipped("coordinates_error")
            ELSE LET found == FindIntersection(net.nodes, target_lon.x, target_lat.x, reply)
                 IN IF found.raised THEN Skipped("error_in_finding_junction")
                    ELSE IF found.node = "" THEN Skipped("not_located_on_map")
                    ELSE [skip |-> FALSE, reason |-> NoneVal, junction_id |-> found.node,
                          input_coords |-> <<target_lon.x, target_lat.x>>]
    ELSE Skipped("no_csv_data")

\* whether find_intersection shows its prompt for this intersection
Prompts(inter, byId) ==
    /\ inter.centreline_id # "" /\ inter.intersection_id = NoneVal
    /\ UniqueId(inter) \in DOMAIN byId
    /\ FloatOf(byId[UniqueId(inter)][1].longitude).ok
    /\ FloatOf(byId[UniqueId(inter)][1].latitude).ok
    /\ FindIntersection(net.nodes, FloatOf(byId[UniqueId(inter)][1].longitude).x,
                        FloatOf(byId[UniqueId(inter)][1].latitude).x, "y").prompted

\* simulation.py:230-271: availability_intervals, or the reason the
\* intersection is skipped
Availability(rs, sim_start, sim_end) ==
    LET ivs == RowIntervals(rs) IN
    IF ivs = <<>> THEN [skip |-> TRUE, reason |-> "no_valid_time_data", intervals |-> <<>>]
    ELSE LET av == FormatIntervals(MergeIntervals(ivs)) IN
         IF av # <<>> /\ ~TimeOverlaps(av, sim_start, sim_end)
         THEN [skip |-> TRUE, reason |-> "data_not_available_for_window", intervals |-> av]
         ELSE [skip |-> FALSE, reason |-> NoneVal, intervals |-> av]

\* mutant: the intersection's own mapped_edges come before the cache
MappingFor_PrefersMappedEdges(inter, jid, pdb) ==
    IF jid \in DOMAIN pdb /\ ~inter.has_mapped_edges
    THEN [skip |-> FALSE, reason |-> NoneVal, hit |-> TRUE, calls_mapper |-> FALSE,
          mapping |-> pdb[jid].edge_mapping]
    ELSE LET mapped == IF inter.has_mapped_edges
                       THEN [raised |-> FALSE, mapping |-> inter.mapped_edges]
                       ELSE MapJunctionEdges(jid)
             calls == ~inter.has_mapped_edges
         IN IF mapped.raised
            THEN [skip |-> TRUE, reason |-> "mapping_error", hit |-> FALSE,
                  calls_mapper |-> calls, mapping |-> NoMapping]
            ELSE IF ~HasNode(jid)
            THEN [skip |-> TRUE, reason |-> "node_error", hit |-> FALSE,
                  calls_mapper |-> calls, mapping |-> NoMapping]
            ELSE [skip |-> FALSE, reason |-> NoneVal, hit |-> (jid \in DOMAIN pdb),
                  calls_mapper |-> calls, mapping |-> mapped.mapping]

\* mutant: the cache is not consulted
MappingFor_IgnoresCache(inter, jid, pdb) ==
    LET mapped == IF inter.has_mapped_edges
                  THEN [raised |-> FALSE, mapping |-> inter.mapped_edges]
                  ELSE MapJunctionEdges(jid)
        calls == ~inter.has_mapped_edges
    IN IF mapped.raised
       THEN [skip |-> TRUE, reason |-> "mapping_error", hit |-> FALSE,
             calls_mapper |-> calls, mapping |-> NoMapping]
       ELSE IF ~HasNode(jid)
       THEN [skip |-> TRUE, reason |-> "node_error", hit |-> FALSE,
             calls_mapper |-> calls, mapping |-> NoMapping]
       ELSE [skip |-> FALSE, reason |-> NoneVal, hit |-> FALSE,
             calls_mapper |-> calls, mapping |-> mapped.mapping]

\* simulation.py:273-296: the mapping of the junction (cache, mapped_edges or
\* edge mapper), or the reason the intersection is skipped
\* (calls_mapper: map_junction_edges is called on the way)
MappingFor(inter, jid, pdb) ==
    IF jid \in DOMAIN pdb
    THEN [skip |-> FALSE, reason |-> NoneVal, hit |-> TRUE, calls_mapper |-> FALSE,
          mapping |-> pdb[jid].edge_mapping]
    ELSE LET mapped == IF inter.has_mapped_edges
                       THEN [raised |-> FALSE, mapping |-> inter.mapped_edges]
                       ELSE MapJunctionEdges(jid)
             calls == ~inter.has_mapped_edges
         IN IF mapped.raised
            THEN [skip |-> TRUE, reason |-> "mapping_error", hit |-> FALSE,
                  calls_mapper |-> calls, mapping |-> NoMapping]
            ELSE IF ~HasNode(jid)
            THEN [skip |-> TRUE, reason |-> "node_error", hit |-> FALSE,
                  calls_mapper |-> calls, mapping |-> NoMapping]
            ELSE [skip |-> FALSE, reason |-> NoneVal, hit |-> FALSE,
                  calls_mapper |-> calls, mapping |-> mapped.mapping]

\* mutant: the put also enters the record in the dict loaded at line 143
ProcessedDbAfterPut_Updated(pdb, jid, record) ==
    [j \in DOMAIN pdb \cup {jid} |-> IF j = jid THEN record ELSE pdb[j]]

\* simulation.py:309: update_processed_db rewrites the file; the dict loaded
\* at line 143 is not touched
ProcessedDbAfterPut(pdb, jid, record) == pdb

\* mutant: the flows built before the ValueError are kept
FlowsKept_Partial(res) == res.flows

\* simulation.py:312-355: the flows the intersection adds to routes_root (none
\* when generate_flows_for_intersection raised)
FlowsKept(res) == IF res.raised THEN <<>> ELSE res.flows

\* the simulation_details entry of simulation.py:339-350 (without the two
\* edge -> direction dicts)
DetailsEntry(jid, cid, name, availability, flows) ==
    [intersection_id |-> jid, centreline_id |-> cid, location_name |-> name,
     data_availability |-> availability,
     monitored_incoming_edges |-> {flows[i].from : i \in 1..Len(flows)},
     monitored_outgoing_edges |-> {flows[i].to : i \in 1..Len(flows)}]

(***************************************************************************)
(* Specification SpecPipe: one run of simulate_simulation                  *)
(***************************************************************************)

InitPipe ==
    /\ pc = "start"
    /\ IdleExtra
    /\ input_fault = "none"
    /\ intersections \in SeqsUpTo(InterPool, MaxInters)
    /\ db_file \in DbFilePool
    /\ db_file_at_start = db_file
    /\ simulation_start_dt = RunWindow[1] /\ simulation_end_dt = RunWindow[2]
    /\ data_rows_by_id = EmptyDict /\ processed_db = EmptyDict
    /\ idx = 0 /\ junction_id = NoneVal /\ input_coords = <<>>
    /\ availability_intervals = <<>> /\ cur_mapping = NoMapping
    /\ routes_root = <<>> /\ incomplete_data = <<>> /\ simulation_details = <<>>
    /\ emitted = <<>> /\ replies = <<>> /\ synth_for = 0
    /\ IdleCall /\ IdleTurn /\ IdleClassify /\ IdleMerge

unitVars == <<turnVars, classifyVars, mergeVars, extraVars>>
unitVarsButMapResult == <<turnVars, classifyVars, mergeVars, net, overlapVars, cacheVars,
                          repeatVars, locateVars, writerVars, availVars>>
callVars == <<mapping, rows, intersection_id, gen_result>>
windowVars == <<simulation_start_dt, simulation_end_dt>>
inputVars == <<input_fault, intersections, db_file_at_start>>
outputVars == <<routes_root, incomplete_data, simulation_details, emitted>>
localVars == <<junction_id, input_coords, availability_intervals, cur_mapping>>

\* mutant: a CSV file without a required column is read all the same
Aborts_ColumnsOptional(fault) == fault \in {"json", "net", "csv"}

\* simulation.py:130-186: the fault makes the run raise RuntimeError
Aborts(fault) == fault # "none"

\* the fault is met after load_processed_db was called at line 143
AfterCacheLoad(fault) == fault \in {"csv", "no_centreline_id_column", "no_start_time_column"}

\* simulation.py:130-186 raise RuntimeError: the run is aborted
LoadInputsFails ==
    /\ pc = "start"
    /\ \E f \in FaultPool :
          /\ Aborts(f)
          /\ input_fault' = f
          /\ processed_db' = IF AfterCacheLoad(f) THEN LoadProcessedDb(db_file)
                                                  ELSE processed_db
    /\ pc' = "aborted"
    /\ UNCHANGED <<flowVars, unitVars, intersections, db_file_at_start, data_rows_by_id,
                   db_file, idx, localVars, outputVars, replies, synth_for>>

\* simulation.py:130-186: the inputs are read, the cache is loaded
LoadInputs ==
    /\ pc = "start"
    /\ \E f \in FaultPool \cup {"none"} :
          /\ ~Aborts(f)
          /\ input_fault' = f
    /\ processed_db' = LoadProcessedDb(db_file)
    /\ data_rows_by_id' = GroupRows(CsvFile)
    /\ idx' = 1
    /\ pc' = "resolve"
    /\ UNCHANGED <<flowVars, unitVars, intersections, db_file_at_start, db_file,
                   outputVars, localVars, replies, synth_for>>

\* `continue`: on to the next intersection
NextIteration ==
    /\ idx' = idx + 1
    /\ pc' = "resolve"
    /\ junction_id' = NoneVal /\ input_coords' = <<>>
    /\ availability_intervals' = <<>> /\ cur_mapping' = NoMapping

\* incomplete_data.append(...); continue
SkipIntersection(reason) ==
    /\ incomplete_data' = Append(incomplete_data, [about |-> idx, reason |-> reason])
    /\ emitted' = Append(emitted, <<>>)
    /\ NextIteration
    /\ UNCHANGED <<routes_root, simulation_details>>

\* simulation.py:190-228
ResolveJunction ==
    /\ pc = "resolve"
    /\ idx <= Len(intersections)
    /\ \E reply \in IF Prompts(intersections[idx], data_rows_by_id)
                    THEN {"y", "n", NoInput} ELSE {NoneVal} :
          LET r == Resolve(intersections[idx], data_rows_by_id, reply) IN
          /\ replies' = Append(replies, reply)
          /\ IF r.skip
             THEN SkipIntersection(r.reason)
             ELSE /\ junction_id' = r.junction_id
                  /\ input_coords' = r.input_coords
                  /\ pc' = "availability"
                  /\ UNCHANGED <<idx, availability_intervals, cur_mapping, outputVars>>
    /\ UNCHANGED <<flowVars, unitVars, inputVars, data_rows_by_id, db_file,
                   processed_db, synth_for>>

\* mutant: the mapping is looked up, computed and stored before the gate, so
\* an intersection the gate rejects leaves its record in the cache file
AvailabilityGate_AfterMapping ==
    /\ pc = "availability"
    /\ LET inter == intersections[idx]
           a == Availability(RowsOf(data_rows_by_id, UniqueId(inter)),
                             simulation_start_dt, simulation_end_dt)
           m == MappingFor(inter, junction_id, processed_db)
           record == CacheRecord(junction_id, UniqueId(inter), inter.location_name,
                                 input_coords, GetNode(junction_id), <<>>, m.mapping)
       IN IF a.skip
          THEN /\ SkipIntersection(a.reason)
               /\ db_file' = IF m.skip \/ m.hit THEN db_file
                             ELSE UpdateProcessedDb(db_file, junction_id, record)
          ELSE /\ availability_intervals' = a.intervals
               /\ pc' = "mapping"
               /\ UNCHANGED <<idx, junction_id, input_coords, cur_mapping, outputVars,
                              db_file>>
    /\ UNCHANGED <<flowVars, unitVars, inputVars, data_rows_by_id,
                   processed_db, replies, synth_for>>

\* simulation.py:230-271
AvailabilityGate ==
    /\ pc = "availability"
    /\ LET a == Availability(RowsOf(data_rows_by_id, UniqueId(intersections[idx])),
                             simulation_start_dt, simulation_end_dt)
       IN IF a.skip
          THEN SkipIntersection(a.reason)
          ELSE /\ availability_intervals' = a.intervals
               /\ pc' = "mapping"
               /\ UNCHANGED <<idx, junction_id, input_coords, cur_mapping, outputVars>>
    /\ UNCHANGED <<flowVars, unitVars, inputVars, data_rows_by_id, db_file,
                   processed_db, replies, synth_for>>

\* simulation.py:273-309
ResolveMapping ==
    /\ pc = "mapping"
    /\ LET inter == intersections[idx]
           m == MappingFor(inter, junction_id, processed_db)
           record == CacheRecord(junction_id, UniqueId(inter), inter.location_name,
                                 input_coords, GetNode(junction_id),
                                 availability_intervals, m.mapping)
       IN /\ IF m.skip
             THEN /\ SkipIntersection(m.reason)
                  /\ UNCHANGED <<db_file, processed_db>>
             ELSE /\ cur_mapping' = m.mapping
                  /\ pc' = "flows"
                  /\ IF m.hit
                     THEN UNCHANGED <<db_file, processed_db>>
                     ELSE /\ db_file' = UpdateProcessedDb(db_file, junction_id, record)
                          /\ processed_db' =
                                ProcessedDbAfterPut(processed_db, junction_id, record)
                  /\ UNCHANGED <<idx, junction_id, input_coords, availability_intervals,
                                 outputVars>>
          /\ map_result' = IF m.calls_mapper THEN MapJunctionEdges(junction_id)
                                              ELSE map_result
    /\ UNCHANGED <<flowVars, unitVarsButMapResult, inputVars, data_rows_by_id, replies,
                   synth_for>>

\* mutant: an empty flow list gets a details record like any other
SynthesizeFlows_NoEmptyCheck ==
    /\ pc = "flows"
    /\ LET inter == intersections[idx]
           intersection_rows == RowsOf(data_rows_by_id, UniqueId(inter))
           res == GenerateFlows(cur_mapping, intersection_rows, junction_id,
                                simulation_start_dt, simulation_end_dt)
       IN /\ mapping' = cur_mapping
          /\ rows' = intersection_rows
          /\ intersection_id' = junction_id
          /\ gen_result' = res
          /\ synth_for' = idx
          /\ routes_root' = routes_root \o FlowsKept(res)
          /\ emitted' = Append(emitted, FlowsKept(res))
          /\ IF res.raised
             THEN /\ incomplete_data' =
                       Append(incomplete_data, [about |-> idx, reason |-> "csv_processing_error"])
                  /\ UNCHANGED simulation_details
             ELSE /\ simulation_details' =
                       Append(simulation_details,
                              DetailsEntry(junction_id, UniqueId(inter), inter.location_name,
                                           availability_intervals, res.flows))
                  /\ UNCHANGED incomplete_data
    /\ NextIteration
    /\ UNCHANGED <<windowVars, unitVars, inputVars, data_rows_by_id, db_file,
                   processed_db, replies>>

\* simulation.py:311-355
SynthesizeFlows ==
    /\ pc = "flows"
    /\ LET inter == intersections[idx]
           intersection_rows == RowsOf(data_rows_by_id, UniqueId(inter))
           res == GenerateFlows(cur_mapping, intersection_rows, junction_id,
                                simulation_start_dt, simulation_end_dt)
       IN /\ mapping' = cur_mapping
          /\ rows' = intersection_rows
          /\ intersection_id' = junction_id
          /\ gen_result' = res
          /\ synth_for' = idx
          /\ routes_root' = routes_root \o FlowsKept(res)
          /\ emitted' = Append(emitted, FlowsKept(res))
          /\ IF res.raised
             THEN /\ incomplete_data' =
                       Append(incomplete_data, [about |-> idx, reason |-> "csv_processing_error"])
                  /\ UNCHANGED simulation_details
             ELSE IF res.flows = <<>>
             THEN /\ incomplete_data' =
                       Append(incomplete_data, [about |-> idx, reason |-> "no_flows"])
                  /\ UNCHANGED simulation_details
             ELSE /\ simulation_details' =
                       Append(simulation_details,
                              DetailsEntry(junction_id, UniqueId(inter), inter.location_name,
                                           availability_intervals, res.flows))
                  /\ UNCHANGED incomplete_data
    /\ NextIteration
    /\ UNCHANGED <<windowVars, unitVars, inputVars, data_rows_by_id, db_file,
                   processed_db, replies>>

\* simulation.py:357-369: the files are written, the run returns
Finish ==
    /\ pc = "resolve"
    /\ idx > Len(intersections)
    /\ pc' = "done"
    /\ UNCHANGED <<flowVars, unitVars, pipeVars>>

NextPipe ==
    \/ LoadInputsFails
    \/ LoadInputs
    \/ ResolveJunction
    \/ AvailabilityGate
    \/ ResolveMapping
    \/ SynthesizeFlows
    \/ Finish

SpecPipe == InitPipe /\ [][NextPipe]_vars

(***************************************************************************)
(* Properties of the run (specification SpecPipe)                          *)
(***************************************************************************)

RECURSIVE Flatten(_)
Flatten(ss) == IF ss = <<>> THEN <<>> ELSE Head(ss) \o Flatten(Tail(ss))

\* the diagnostic entries written for the k-th intersection of the input
DiagnosticsAbout(k) == {i \in 1..Len(incomplete_data) : incomplete_data[i].about = k}

\* the last call of generate_flows_for_intersection met a key that passes the
\* parsing, vehicle-class and count checks in a row of the window, and whose
\* origin or destination direction the mapping does not have
NeedsAbsentDirection ==
    \E q \in Qualifying :
        MappingIncomplete(mapping,
                          DecodeCell(rows[q[1]].cells[q[2]].key, rows[q[1]].cells[q[2]].value))

\* C1: hard stop is all-or-nothing per intersection.  When the rows of the
\* intersection hold a qualifying key whose origin direction is absent from
\* mapping.incoming or whose destination direction is absent from
\* mapping.outgoing, generate_flows_for_intersection raises, the run's output
\* holds no flow of that intersection (not even those decoded before the
\* failing key) and incomplete_data holds exactly one entry for it.
C1_HardStopAllOrNothing ==
    (synth_for # 0 /\ NeedsAbsentDirection) =>
        /\ gen_result.raised
        /\ emitted[synth_for] = <<>>
        /\ routes_root = Flatten(emitted)
        /\ Cardinality(DiagnosticsAbout(synth_for)) = 1

\* flows had been decoded before the failing key, and none of them is kept
C1_Witness ==
    /\ synth_for # 0 /\ NeedsAbsentDirection
    /\ gen_result.raised /\ Len(gen_result.flows) >= 1
    /\ emitted[synth_for] = <<>>
    /\ Len(rows) = 2

\* the flows of one intersection when the run holds this intersection alone,
\* started with cache pdb and answered reply at the prompt
SoloFlows(inter, reply, pdb) ==
    LET byId == GroupRows(CsvFile)
        r == Resolve(inter, byId, reply)
        a == Availability(RowsOf(byId, UniqueId(inter)), simulation_start_dt, simulation_end_dt)
        m == MappingFor(inter, r.junction_id, pdb)
    IN IF r.skip THEN <<>>
       ELSE IF a.skip THEN <<>>
       ELSE IF m.skip THEN <<>>
       ELSE FlowsKept(GenerateFlows(m.mapping, RowsOf(byId, UniqueId(inter)), r.junction_id,
                                    simulation_start_dt, simulation_end_dt))

\* the k-th intersection failed: nothing emitted and a diagnostic entry
Failed(k) == k <= Len(emitted) /\ emitted[k] = <<>> /\ DiagnosticsAbout(k) # {}

\* C2: isolate and continue.  A failure of one intersection never aborts the
\* run (the run is aborted only while the input files are read, before the
\* first intersection; the loop then goes through every intersection), and the flows emitted for each intersection are those of a
\* run from which the other intersections are removed.
C2_IsolateAndContinue ==
    /\ pc = "aborted" => input_fault # "none" /\ idx = 0
    /\ pc \in {"availability", "mapping", "flows"} => input_fault = "none"
    /\ pc = "resolve" => Len(emitted) = idx - 1
    /\ pc = "done" => Len(emitted) = Len(intersections)
    /\ routes_root = Flatten(emitted)
    /\ \A k \in 1..Len(emitted) :
          emitted[k] = SoloFlows(intersections[k], replies[k],
                                 LoadProcessedDb(db_file_at_start))

\* the first intersection fails while decoding, after its mapping of J1 was
\* put in the cache; the second one, at the same junction, emits its flows
C2_Witness ==
    /\ pc = "done" /\ Len(intersections) = 2
    /\ db_file_at_start.status = "missing"
    /\ intersections[1].intersection_id = "J1"
    /\ Failed(1) /\ incomplete_data[1].reason = "csv_processing_error"
    /\ emitted[2] # <<>> /\ emitted[2][1].id[1] = "J1"

(***************************************************************************)
(* Specification SpecOverlap: one call of time_overlaps                    *)
(***************************************************************************)

\* minute m of the day of the data, as a datetime
Minute(m) == m * 60

Interval(st, et) == [start |-> st, end |-> et]

\* the interval dicts the call may be handed: the two intervals of a merged
\* set, intervals that abut or enclose them, an inverted one, and intervals
\* whose strings strptime rejects (free text, ISO 'T' separator)
OverlapIntervalPool ==
    {Interval("2024-01-01 00:10:00", "2024-01-01 00:25:00"),
     Interval("2024-01-01 00:30:00", "2024-01-01 00:40:00"),
     Interval("2024-01-01 00:25:00", "2024-01-01 00:30:00"),
     Interval("2024-01-01 00:10:00", "2024-01-01 00:40:00"),
     Interval("2024-01-01 00:40:00", "2024-01-01 00:40:00"),
     Interval("2024-01-01 00:30:00", "2024-01-01 00:25:00"),
     Interval("n/a", "2024-01-01 00:40:00"),
     Interval("2024-01-01 00:10:00", "2024-01-01T00:40:00")}

\* the datetimes the window may start and end at
QueryTimes == {Minute(m) : m \in {10, 18, 22, 25, 26, 29, 30, 40}}

InitOverlap ==
    /\ pc = "call"
    /\ overlap_intervals \in SeqsUpTo(OverlapIntervalPool, MaxOverlapIntervals)
    /\ query_start \in QueryTimes
    /\ query_end \in QueryTimes
    /\ overlap_result = FALSE
    /\ IdleFlows /\ IdleTurn /\ IdleClassify /\ IdleMerge /\ IdlePipe
    /\ IdleMap /\ IdleCache /\ IdleRepeat /\ IdleLocate
    /\ IdleWriters /\ IdleAvail

\* time_overlaps(intervals, sim_start, sim_end) returns
CallTimeOverlaps ==
    /\ pc = "call"
    /\ overlap_result' = TimeOverlaps(overlap_intervals, query_start, query_end)
    /\ pc' = "returned"
    /\ UNCHANGED <<overlap_intervals, query_start, query_end, flowVars, turnVars,
                   classifyVars, mergeVars, pipeVars, mapVars, cacheVars, repeatVars,
                   locateVars, writerVars, availVars>>

NextOverlap == CallTimeOverlaps

SpecOverlap == InitOverlap /\ [][NextOverlap]_vars

\* the merged set [(10,25),(30,40)], in minutes
ExampleMergedSet ==
    <<Interval("2024-01-01 00:10:00", "2024-01-01 00:25:00"),
      Interval("2024-01-01 00:30:00", "2024-01-01 00:40:00")>>

\* both strings of interval i are in the format strptime expects
Parseable(i) ==
    Strptime(overlap_intervals[i].start).ok /\ Strptime(overlap_intervals[i].end).ok

PutIds == {"J1", "J2", "N1"}

\* the records put under junction id jid
PutRecords(jid) ==
    {CacheRecord(jid, "c1", "located", <<-7940, 4365>>, NetNodes[1],
                 <<Interval("2024-01-01 08:00:00", "2024-01-01 08:30:00")>>, FullMapping),
     CacheRecord(jid, "c2", "pre-known junction", <<>>, NetNodes[6],
                 <<Interval("2024-01-01 08:00:00", "2024-01-01 08:15:00"),
                   Interval("2024-01-01 08:30:00", "2024-01-01 08:45:00")>>,
                 NorthSouthMapping),
     CacheRecord(jid, "c9", "cached", <<>>, NetNodes[1], <<>>, NorthSouthMapping),
     CacheRecord(jid, "c2", "cached", <<>>, NetNodes[6], <<>>, FullMapping),
     CacheRecord(jid, "c8", "nothing mapped", <<-7940, 4365>>, NetNodes[1], <<>>, NoMapping)}

\* the cache documents the put may find: those of DbFilePool and one with
\* two entries
CacheFilePool ==
    DbFilePool
    \cup {[status |-> "ok",
           doc |-> JsonDump([j \in {"J1", "N1"} |->
                      CacheRecord(j, "c9", "cached", <<>>, NetNodes[1], <<>>,
                                  NorthSouthMapping)])]}

InitCache ==
    /\ pc = "call"
    /\ db_file \in CacheFilePool
    /\ db_file_at_start = db_file
    /\ processed_db = EmptyDict
    /\ junction_id \in PutIds
    /\ put_record \in PutRecords(junction_id)
    /\ IdleRun
    /\ IdleFlows /\ IdleTurn /\ IdleClassify /\ IdleMerge
    /\ IdleMap /\ IdleOverlap /\ IdleRepeat /\ IdleLocate
    /\ IdleWriters /\ IdleAvail

runVars == <<input_fault, intersections, data_rows_by_id, idx, input_coords,
             availability_intervals, cur_mapping, routes_root, incomplete_data,
             simulation_details, emitted, replies, synth_for>>

\* update_processed_db(junction_id, record) returns
CallUpdateProcessedDb ==
    /\ pc = "call"
    /\ db_file' = UpdateProcessedDb(db_file, junction_id, put_record)
    /\ pc' = "updated"
    /\ UNCHANGED <<db_file_at_start, processed_db, junction_id, put_record, runVars,
                   flowVars, turnVars, classifyVars, mergeVars, mapVars, overlapVars,
                   repeatVars, locateVars, writerVars,
                   availVars>>

\* a fresh load_processed_db() returns
CallLoadProcessedDb ==
    /\ pc = "updated"
    /\ processed_db' = LoadProcessedDb(db_file)
    /\ pc' = "loaded"
    /\ UNCHANGED <<db_file, db_file_at_start, junction_id, put_record, runVars,
                   flowVars, turnVars, classifyVars, mergeVars, mapVars, overlapVars,
                   repeatVars, locateVars, writerVars,
                   availVars>>

NextCache == CallUpdateProcessedDb \/ CallLoadProcessedDb

SpecCache == InitCache /\ [][NextCache]_vars

CacheHit == junction_id \in DOMAIN processed_db

\* the CacheRecord the run builds for the intersection under way
RecordFor(m) ==
    CacheRecord(junction_id, UniqueId(intersections[idx]),
                intersections[idx].location_name, input_coords, GetNode(junction_id),
                availability_intervals, m)

\* C13: get-or-compute.  When the run comes to the mapping of an intersection
\* it looks the junction up in the cache first.  On a hit it goes on with the
\* cached mapping, without calling the edge mapper and without writing the
\* cache file.  On a miss that yields a mapping, the cache file holds the
\* record built from that mapping when flow synthesis starts; flow synthesis
\* never touches the file, so the record stays whether synthesis succeeds,
\* fails or yields no flows.
C13_GetOrCompute ==
    [][/\ (pc = "mapping" /\ CacheHit) =>
            /\ pc' = "flows"
            /\ cur_mapping' = processed_db[junction_id].edge_mapping
            /\ map_result' = map_result
            /\ db_file' = db_file
       /\ (pc = "mapping" /\ ~CacheHit /\ pc' = "flows") =>
            /\ db_file'.status = "ok"
            /\ junction_id \in DOMAIN LoadProcessedDb(db_file')
            /\ LoadProcessedDb(db_file')[junction_id] = RecordFor(cur_mapping')
       /\ pc = "flows" => db_file' = db_file
      ]_vars

\* first a hit whose cached mapping gave flows, then a miss whose record is
\* in the file although its flow synthesis failed
C13_Witness ==
    /\ pc = "done" /\ Len(intersections) = 2
    /\ db_file_at_start.status = "ok" /\ DOMAIN db_file_at_start.doc = {"J2"}
    /\ intersections[1].centreline_id = "c2" /\ intersections[1].intersection_id = NoneVal
    /\ emitted[1] # <<>>
    /\ intersections[2].intersection_id = "J1"
    /\ Failed(2) /\ incomplete_data[1].reason = "csv_processing_error"
    /\ "J1" \in DOMAIN db_file.doc
    /\ db_file.doc["J1"].edge_mapping = NorthSouthMapping
    /\ db_file.doc["J2"] = db_file_at_start.doc["J2"]

\* the cache file the run started with is missing, empty or not parseable
NoUsableCacheFile == db_file_at_start.status \in {"missing", "empty", "corrupt"}

\* C14: load_processed_db never fails the run.  When the cache file is
\* missing, empty or not parseable the run loads an empty cache and goes on
\* (it is aborted only by a fault of its input files), and every junction it
\* comes to is a cache miss: its record is written before flow synthesis.
C14_UnusableCacheIsEmptyCache ==
    NoUsableCacheFile =>
        /\ pc # "start" => processed_db = EmptyDict
        /\ pc = "aborted" => input_fault # "none"
        /\ pc = "mapping" => ~CacheHit
        /\ pc = "flows" =>
              /\ db_file.status = "ok"
              /\ junction_id \in DOMAIN LoadProcessedDb(db_file)

\* the run ended with flows for a junction the unparseable file had an entry
\* for, obtained from the edge mapper and not from that entry
C14_Witness ==
    /\ pc = "done" /\ db_file_at_start.status = "corrupt"
    /\ Len(intersections) = 1 /\ intersections[1].centreline_id = "c1"
    /\ intersections[1].intersection_id = NoneVal
    /\ emitted[1] # <<>> /\ emitted[1][1].id[1] = "J1"
    /\ ~map_result.raised /\ map_result.mapping = db_file.doc["J1"].edge_mapping
    /\ db_file.doc["J1"].edge_mapping # db_file_at_start.doc["J1"].edge_mapping

(***************************************************************************)
(* Specification SpecRepeat: generate_flows_for_intersection called twice  *)
(* with the same arguments                                                 *)
(***************************************************************************)

InitRepeat == InitFlows

\* the second call, with the arguments of the first
GenerateFlowsAgain ==
    /\ pc \in {"returned", "raised"}
    /\ prev_result' = gen_result
    /\ gen_result' = GenerateFlows(mapping, rows, intersection_id,
                                   simulation_start_dt, simulation_end_dt)
    /\ pc' = "repeated"
    /\ UNCHANGED <<mapping, rows, intersection_id, simulation_start_dt,
                   simulation_end_dt, turnVars, classifyVars, mergeVars, pipeVars,
                   mapVars, overlapVars, cacheVars, locateVars, writerVars,
                   availVars>>

NextRepeat == GenerateFlowsReturns \/ GenerateFlowsRaises \/ GenerateFlowsAgain

SpecRepeat == InitRepeat /\ [][NextRepeat]_vars

\* the id of the flow of qualifying pair q
FlowIdOf(q) ==
    <<intersection_id, rows[q[1]].cells[q[2]].key, RowStart(q[1]).t - simulation_start_dt>>

TieNodes == <<[id |-> "A", x |-> 80, y |-> 100], [id |-> "B", x |-> 120, y |-> 100]>>

\* two nodes at the same distance of the point (100, 100), within the tolerance
NearTieNodes == <<[id |-> "C", x |-> 100, y |-> 94], [id |-> "D", x |-> 106, y |-> 100]>>

\* net.getNodes() of the networks the locator is run on
NodesPool ==
    {<<>>,
     NetNodes,
     TieNodes,
     <<TieNodes[2], TieNodes[1]>>,
     <<TieNodes[1]>> \o NearTieNodes,
     <<NearTieNodes[2], TieNodes[2], NearTieNodes[1]>>,
     <<[id |-> "far", x |-> 1000, y |-> 1000]>>}

\* target longitudes and latitudes, in hundredths of a degree
LonPool == {-7940, -7939, -7938, -7930, -7920}
LatPool == {4365, 4366, 4375}

\* what is typed at the prompt, if it is shown
ReplyPool == {"y", " Y ", "n", "yes", "", NoInput}

InitLocate ==
    /\ pc = "call"
    /\ \E nodes \in NodesPool : net = [nodes |-> nodes, edges |-> <<>>]
    /\ map_result = [raised |-> FALSE, mapping |-> [incoming |-> <<>>, outgoing |-> <<>>]]
    /\ locate_lon \in LonPool
    /\ locate_lat \in LatPool
    /\ user_reply \in ReplyPool
    /\ find_result = NotFound
    /\ IdleFlows /\ IdleTurn /\ IdleClassify /\ IdleMerge /\ IdlePipe
    /\ IdleOverlap /\ IdleCache /\ IdleRepeat
    /\ IdleWriters /\ IdleAvail

\* find_intersection(net, target_lon, target_lat) returns or raises
CallFindIntersection ==
    /\ pc = "call"
    /\ find_result' = FindIntersection(net.nodes, locate_lon, locate_lat, user_reply)
    /\ pc' = IF find_result'.raised THEN "raised" ELSE "returned"
    /\ UNCHANGED <<locate_lon, locate_lat, user_reply, flowVars, turnVars, classifyVars,
                   mergeVars, pipeVars, mapVars, overlapVars, cacheVars, repeatVars,
                   writerVars, availVars>>

NextLocate == CallFindIntersection

SpecLocate == InitLocate /\ [][NextLocate]_vars

\* where the target falls in the network's coordinates
LocateTarget == ConvertLonLat2XY(locate_lon, locate_lat)

\* squared distance of node i to the target
TargetDist2(i) ==
    (net.nodes[i].x - LocateTarget[1]) * (net.nodes[i].x - LocateTarget[1])
    + (net.nodes[i].y - LocateTarget[2]) * (net.nodes[i].y - LocateTarget[2])

\* the first of the nodes no other node is nearer than
NearestIndex ==
    CHOOSE i \in 1..Len(net.nodes) :
        /\ \A j \in 1..Len(net.nodes) : TargetDist2(i) <= TargetDist2(j)
        /\ \A j \in 1..(i - 1) : TargetDist2(j) > TargetDist2(i)

\* the line typed is a yes
Accepted == user_reply \in {"y", "Y", " y ", " Y "}

\* the line typed is anything else
Rejected == user_reply # NoInput /\ ~Accepted

\* C16: the locator's outcome is three-way.  No node in the network: it fails
\* with the no-nodes error.  Nearest node within the tolerance (distance <=
\* 10): it returns that node's id and asks nothing.  Nearest node beyond the
\* tolerance: it always asks, returns the nearest node's id when the answer
\* is yes and fails with the declined error when the answer is anything
\* else; it never returns an out-of-tolerance node, nor refuses one, unasked.
C16_LocatorThreeWay ==
    pc \in {"returned", "raised"} =>
        IF net.nodes = <<>>
        THEN find_result.raised /\ find_result.error = "no_nodes" /\ ~find_result.prompted
        ELSE IF TargetDist2(NearestIndex) <= Tolerance * Tolerance
        THEN /\ ~find_result.raised /\ ~find_result.prompted
             /\ find_result.node = net.nodes[NearestIndex].id
        ELSE /\ find_result.prompted
             /\ Accepted => ~find_result.raised
                            /\ find_result.node = net.nodes[NearestIndex].id
             /\ Rejected => find_result.raised /\ find_result.error = "declined"
             /\ user_reply = NoInput => find_result.raised

\* the nearest node is one of two equally near ones, 20 away, and the answer
\* typed is ' Y '
C16_Witness ==
    /\ pc = "returned"
    /\ net.nodes = <<TieNodes[2], TieNodes[1]>>
    /\ TargetDist2(1) = 400 /\ TargetDist2(2) = 400
    /\ user_reply = " Y "
    /\ find_result.prompted /\ find_result.node = "B"

\* C17: a pipeline-level failure (intersection JSON, network file or CSV
\* unreadable, CSV without the centreline_id or the start_time column) aborts
\* the whole run before any intersection is processed: no flow is produced,
\* no diagnostic is returned and no cache record is written.
C17_InputFaultAbortsRun ==
    /\ input_fault # "none" => pc = "aborted"
    /\ pc = "aborted" =>
          /\ idx = 0 /\ emitted = <<>> /\ replies = <<>>
          /\ routes_root = <<>>
          /\ incomplete_data = <<>> /\ simulation_details = <<>>
          /\ db_file = db_file_at_start

\* the CSV file has no start_time column; the cache had been loaded and the
\* JSON file held two intersections
C17_Witness ==
    /\ pc = "aborted" /\ input_fault = "no_start_time_column"
    /\ Len(intersections) = 2
    /\ processed_db # EmptyDict
    /\ routes_root = <<>> /\ incomplete_data = <<>>

(***************************************************************************)
(* Specification SpecMapEdges: one call of map_junction_edges              *)
(***************************************************************************)

\* junction J1 with a neighbour on each axis and each diagonal
StarNodes ==
    <<[id |-> "J1", x |-> 100, y |-> 100],
      [id |-> "N1", x |-> 100, y |-> 200],
      [id |-> "E1", x |-> 200, y |-> 100],
      [id |-> "S1", x |-> 100, y |-> 0],
      [id |-> "W1", x |-> 0, y |-> 100],
      [id |-> "NE1", x |-> 200, y |-> 200],
      [id |-> "NW1", x |-> 0, y |-> 200],
      [id |-> "SW1", x |-> 0, y |-> 0],
      [id |-> "SE1", x |-> 200, y |-> 0]>>

Edge(id, from, to, type) == [id |-> id, from |-> from, to |-> to, type |-> type]

\* the edges a network may be made of: roads into and out of J1 on the axes
\* and the diagonals, a second road on the north leg, a footway, a railway,
\* an edge with no type, and a road that does not touch J1
EdgePool ==
    {Edge("n_in", "N1", "J1", "highway.primary"),
     Edge("n_in_b", "N1", "J1", "highway.residential"),
     Edge("n_out", "J1", "N1", "highway.primary"),
     Edge("e_in", "E1", "J1", "highway.primary"),
     Edge("e_out", "J1", "E1", "highway.residential"),
     Edge("s_out", "J1", "S1", "highway.primary"),
     Edge("s_out_b", "J1", "S1", "highway.residential"),
     Edge("w_in", "W1", "J1", "highway.residential"),
     Edge("ne_in", "NE1", "J1", "highway.primary"),
     Edge("nw_out", "J1", "NW1", "highway.primary"),
     Edge("sw_in", "SW1", "J1", "highway.primary"),
     Edge("se_out", "J1", "SE1", "highway.primary"),
     Edge("n_foot_in", "N1", "J1", "highway.footway"),
     Edge("e_foot_out", "J1", "E1", "highway.footway"),
     Edge("s_rail_in", "S1", "J1", "railway.rail"),
     Edge("w_plain_out", "J1", "W1", ""),
     Edge("n_e", "N1", "E1", "highway.primary")}

\* net.getEdges() of the networks: up to MaxEdges different edges, any order
EdgeLists ==
    {es \in SeqsUpTo(EdgePool, MaxEdges) :
        \A i, j \in 1..Len(es) : i # j => es[i] # es[j]}

InitMapEdges ==
    /\ pc = "call"
    /\ \E es \in EdgeLists : net = [nodes |-> StarNodes, edges |-> es]
    /\ map_result = [raised |-> FALSE, mapping |-> [incoming |-> <<>>, outgoing |-> <<>>]]
    /\ junction_id \in {"J1", "JX"}
    /\ IdleRun /\ IdleDb
    /\ IdleFlows /\ IdleTurn /\ IdleClassify /\ IdleMerge
    /\ IdleOverlap /\ IdleCache /\ IdleRepeat /\ IdleLocate
    /\ IdleWriters /\ IdleAvail

\* map_junction_edges(net, junction_id) returns or raises
CallMapJunctionEdges ==
    /\ pc = "call"
    /\ map_result' = MapJunctionEdges(junction_id)
    /\ pc' = IF map_result'.raised THEN "raised" ELSE "returned"
    /\ UNCHANGED <<net, flowVars, turnVars, classifyVars, mergeVars, pipeVars,
                   overlapVars, cacheVars, repeatVars, locateVars, writerVars,
                   availVars>>

NextMapEdges == CallMapJunctionEdges

SpecMapEdges == InitMapEdges /\ [][NextMapEdges]_vars

\* the node with this id
NodeOf(id) == CHOOSE n \in SeqRange(net.nodes) : n.id = id

\* the edge's type contains 'highway' and not 'footway'
Drivable(e) == e.type \in {"highway.primary", "highway.residential"}

\* positions in net.edges of the drivable edges into / out of the junction
IncomingDrivable == {i \in 1..Len(net.edges) : net.edges[i].to = junction_id
                                               /\ Drivable(net.edges[i])}
OutgoingDrivable == {i \in 1..Len(net.edges) : net.edges[i].from = junction_id
                                               /\ Drivable(net.edges[i])}

\* the direction keys of side (a dict) whose list holds the id
KeysHolding(side, id) ==
    {d \in DOMAIN side : \E k \in 1..Len(side[d]) : side[d][k] = id}

\* direction of the bearing from (x1, y1) to (x2, y2)
DirectionOfBearing(from_node, to_node) ==
    ClassifyDirection(ComputeBearing(from_node.x, from_node.y, to_node.x, to_node.y))

\* C18 as the specification states it: every drivable incoming edge is filed
\* under the direction of the bearing from its from-node to the junction
C18_AsStated ==
    pc = "returned" =>
        \A i \in IncomingDrivable :
            KeysHolding(map_result.mapping.incoming, net.edges[i].id)
                = {DirectionOfBearing(NodeOf(net.edges[i].from), NodeOf(junction_id))}

\* C18: every drivable incoming edge of the junction is filed under the
\* direction of the bearing from the junction to the edge's from-node: an
\* incoming edge whose from-node lies due north of the junction (traffic
\* travelling south) is filed under north, the side the traffic arrives from.
C18_IncomingFiledBySideOfArrival ==
    pc = "returned" =>
        \A i \in IncomingDrivable :
            /\ KeysHolding(map_result.mapping.incoming, net.edges[i].id)
                 = {DirectionOfBearing(NodeOf(junction_id), NodeOf(net.edges[i].from))}
            /\ net.edges[i].from = "N1" =>
                 KeysHolding(map_result.mapping.incoming, net.edges[i].id) = {"north"}

\* an incoming road from due north, filed under north, where the bearing from
\* its from-node to the junction is 270 degrees (south)
C18_Witness ==
    /\ pc = "returned"
    /\ \E i \in IncomingDrivable :
          /\ net.edges[i].from = "N1"
          /\ "north" \in DOMAIN map_result.mapping.incoming
          /\ net.edges[i].id \in SeqRange(map_result.mapping.incoming["north"])
          /\ DirectionOfBearing(NodeOf("N1"), NodeOf(junction_id)) = "south"
    /\ \E i \in IncomingDrivable : net.edges[i].from = "SW1"

\* position in net.edges of the edge with this id (0 when there is none)
PositionOf(id) ==
    IF \E i \in 1..Len(net.edges) : net.edges[i].id = id
    THEN CHOOSE i \in 1..Len(net.edges) : net.edges[i].id = id
    ELSE 0

\* how many times the id occurs in the lists of side (a dict)
Occurrences(side, id) ==
    Cardinality({p \in UNION {{<<d, k>> : k \in 1..Len(side[d])} : d \in DOMAIN side} :
                    side[p[1]][p[2]] = id})

\* side (a dict of the mapping) files exactly the edges at the positions in
\* expected, once each, in encounter order, with no empty list
ExactPartition(side, expected) ==
    /\ \A i \in expected : Occurrences(side, net.edges[i].id) = 1
    /\ \A d \in DOMAIN side :
          /\ side[d] # <<>>
          /\ \A k \in 1..Len(side[d]) : PositionOf(side[d][k]) \in expected
          /\ \A k, l \in 1..Len(side[d]) :
                k < l => PositionOf(side[d][k]) < PositionOf(side[d][l])

\* C19: the mapping returned by map_junction_edges is an exact partition of
\* the junction's drivable edges: every incoming (outgoing) edge whose type
\* contains 'highway' and not 'footway' appears exactly once, under one
\* direction key of incoming (outgoing); an outgoing edge is under the
\* direction of the bearing from the junction to its to-node; edges with no
\* type, a footway type or a non-highway type never appear; within a
\* direction the ids are in encounter order; no direction has an empty list.
C19_MappingIsExactPartition ==
    pc = "returned" =>
        /\ DOMAIN map_result.mapping = {"incoming", "outgoing"}
        /\ ExactPartition(map_result.mapping.incoming, IncomingDrivable)
        /\ ExactPartition(map_result.mapping.outgoing, OutgoingDrivable)
        /\ \A i \in OutgoingDrivable :
              KeysHolding(map_result.mapping.outgoing, net.edges[i].id)
                = {DirectionOfBearing(NodeOf(junction_id), NodeOf(net.edges[i].to))}
        /\ \A i \in 1..Len(net.edges) :
              ~Drivable(net.edges[i]) =>
                 /\ Occurrences(map_result.mapping.incoming, net.edges[i].id) = 0
                 /\ Occurrences(map_result.mapping.outgoing, net.edges[i].id) = 0

\* two roads leave toward the south, the later id first in the network, next
\* to a footway that leaves toward the east: south holds both roads in
\* encounter order and east is no key
C19_Witness ==
    /\ pc = "returned"
    /\ EdgeIds(net.edges) = <<"s_out_b", "e_foot_out", "s_out">>
    /\ map_result.mapping.outgoing = [d \in {"south"} |-> <<"s_out_b", "s_out">>]
    /\ DOMAIN map_result.mapping.incoming = {}

\* the junction ids that have a record in the cache file
CachedJunctions(file) == DOMAIN LoadProcessedDb(file)

ReturnedIndexes == {i \in 1..Len(net.nodes) : net.nodes[i].id = find_result.node}

\* C21: when find_intersection returns, the node it returns is at minimal
\* distance of the projected target over all nodes of the network, and of
\* the nodes at that minimal distance it is the first in the network's node
\* order.
C21_NearestFirstEncountered ==
    pc = "returned" =>
        \E i \in ReturnedIndexes :
            /\ \A j \in 1..Len(net.nodes) : TargetDist2(i) <= TargetDist2(j)
            /\ \A j \in 1..Len(net.nodes) :
                  TargetDist2(j) = TargetDist2(i) => i <= j

\* three nodes, the farthest in the middle; the two others are equally near
\* (6 away, in different directions) and the one returned, unasked, is the
\* earlier
C21_Witness ==
    /\ pc = "returned"
    /\ net.nodes = <<NearTieNodes[2], TieNodes[2], NearTieNodes[1]>>
    /\ TargetDist2(1) = 36 /\ TargetDist2(3) = 36 /\ TargetDist2(2) = 400
    /\ find_result.node = "D" /\ ~find_result.prompted

\* the step of simulation.py:297-309: a record is built and put
PutStep == pc = "mapping" /\ ~CacheHit /\ pc' = "flows"

\* every record of the cache file is in it, unchanged, after the step
RecordsKept ==
    \A j \in CachedJunctions(db_file) :
        /\ j \in CachedJunctions(db_file')
        /\ LoadProcessedDb(db_file')[j] = LoadProcessedDb(db_file)[j]

\* C22: a CacheRecord is written once per junction.  A put is made only for a
\* junction that has no record in the cache file (so at most once per
\* junction, at its first resolution, also when several intersections of one
\* run resolve to the same junction), and no step changes or removes a
\* record the file holds.
C22_WrittenOncePerJunction ==
    [][/\ PutStep => junction_id \notin CachedJunctions(db_file)
       /\ RecordsKept
      ]_vars

\* the part of C22 that holds of every run: a junction that has a record in
\* the cache when the run starts is never put, and its record is in the file,
\* unchanged, after every step
C22_CachedAtStartNeverRewritten ==
    [][/\ PutStep => junction_id \notin CachedJunctions(db_file_at_start)
       /\ \A j \in CachedJunctions(db_file_at_start) :
             /\ j \in CachedJunctions(db_file')
             /\ LoadProcessedDb(db_file')[j] = LoadProcessedDb(db_file_at_start)[j]
      ]_vars

(***************************************************************************)
(* Specification SpecWriters: two processes call update_processed_db for   *)
(* different junctions on the same cache file                              *)
(***************************************************************************)

Writers == {1, 2}

\* the (junction_id, record) arguments of a call
Put(jid, record) == [junction_id |-> jid, record |-> record]

InitWriters ==
    /\ pc = "writers"
    /\ db_file \in CacheFilePool
    /\ db_file_at_start = db_file
    /\ \E j1, j2 \in PutIds :
          /\ j1 # j2
          /\ \E r1 \in PutRecords(j1), r2 \in PutRecords(j2) :
                writer_put = <<Put(j1, r1), Put(j2, r2)>>
    /\ writer_pc = [w \in Writers |-> "load"]
    /\ writer_db = [w \in Writers |-> EmptyDict]
    /\ writer_log = <<>>
    /\ processed_db = EmptyDict /\ junction_id = NoneVal /\ put_record = NoneVal
    /\ IdleRun /\ IdleAvail
    /\ IdleFlows /\ IdleTurn /\ IdleClassify /\ IdleMerge
    /\ IdleMap /\ IdleOverlap /\ IdleRepeat /\ IdleLocate

notWriterVars == <<pc, flowVars, turnVars, classifyVars, mergeVars, input_fault,
                   intersections, data_rows_by_id, db_file_at_start, processed_db, idx,
                   junction_id, input_coords, availability_intervals, cur_mapping,
                   routes_root, incomplete_data, simulation_details, emitted, replies,
                   synth_for, mapVars, overlapVars, cacheVars, repeatVars, locateVars,
                   availVars, writer_put>>

\* database.py:20-21
WriterLoad(w) ==
    /\ writer_pc[w] = "load"
    /\ writer_db' = [writer_db EXCEPT ![w] =
                        LocalDb(db_file, writer_put[w].junction_id, writer_put[w].record)]
    /\ writer_pc' = [writer_pc EXCEPT ![w] = "open"]
    /\ writer_log' = Append(writer_log, <<w, "load">>)
    /\ UNCHANGED <<db_file, notWriterVars>>

\* database.py:23
WriterOpen(w) ==
    /\ writer_pc[w] = "open"
    /\ db_file' = Truncated
    /\ writer_pc' = [writer_pc EXCEPT ![w] = "dump"]
    /\ writer_log' = Append(writer_log, <<w, "open">>)
    /\ UNCHANGED <<writer_db, notWriterVars>>

\* database.py:24
WriterDump(w) ==
    /\ writer_pc[w] = "dump"
    /\ db_file' \in DumpInto(db_file, writer_db[w])
    /\ writer_pc' = [writer_pc EXCEPT ![w] = "done"]
    /\ writer_log' = Append(writer_log, <<w, "dump">>)
    /\ UNCHANGED <<writer_db, notWriterVars>>

NextWriters == \E w \in Writers : WriterLoad(w) \/ WriterOpen(w) \/ WriterDump(w)

SpecWriters == InitWriters /\ [][NextWriters]_vars

\* when writer w took the step (0: not yet)
StepAt(w, step) ==
    IF \E i \in 1..Len(writer_log) : writer_log[i] = <<w, step>>
    THEN CHOOSE i \in 1..Len(writer_log) : writer_log[i] = <<w, step>>
    ELSE 0

WritersDone == \A w \in Writers : writer_pc[w] = "done"

\* both writers loaded the document before either opened the file for writing
BothLoadedFirst ==
    \A w, v \in Writers : StepAt(w, "load") < StepAt(v, "open")

\* writer a was through before writer b started
Serialized(a, b) == StepAt(a, "dump") < StepAt(b, "load")

\* the writer whose dump came last
LastWriter == CHOOSE w \in Writers : \A v \in Writers : StepAt(v, "dump") <= StepAt(w, "dump")

\* the dict db with the entry of writer w set
WithPut(db, w) ==
    [j \in DOMAIN db \cup {writer_put[w].junction_id} |->
        IF j = writer_put[w].junction_id THEN writer_put[w].record ELSE db[j]]

\* C23: the load-modify-rewrite cycle of update_processed_db is not atomic.
\* When two writers put different junctions and both load the document before
\* either opens the file for writing, a document that can be read afterwards
\* is what the run started with plus the last writer's record only: the
\* other writer's update is lost.  When one writer is through before the
\* other starts, the document holds both records.
C23_ConcurrentPutsLoseUpdates ==
    WritersDone =>
        /\ (BothLoadedFirst /\ db_file.status = "ok") =>
              LoadProcessedDb(db_file)
                 = WithPut(LoadProcessedDb(db_file_at_start), LastWriter)
        /\ \A a, b \in Writers :
              (a # b /\ Serialized(a, b)) =>
                 /\ db_file.status = "ok"
                 /\ LoadProcessedDb(db_file)
                      = WithPut(WithPut(LoadProcessedDb(db_file_at_start), a), b)

\* both writers loaded a document that holds J1, then writer 1 wrote and after
\* it writer 2: the document holds J1 and writer 2's junction, and writer 1's
\* junction is not in it
C23_Witness ==
    /\ WritersDone /\ BothLoadedFirst
    /\ StepAt(1, "dump") < StepAt(2, "open")
    /\ db_file.status = "ok"
    /\ CachedJunctions(db_file_at_start) = {"J1"}
    /\ writer_put[1].junction_id = "N1" /\ writer_put[2].junction_id = "J2"
    /\ CachedJunctions(db_file) = {"J1", "J2"}

\* the availability gate rejects the intersection under way (no row with
\* valid times, or no data in the simulation window)
GateRejects ==
    /\ pc = "availability"
    /\ Availability(RowsOf(data_rows_by_id, UniqueId(intersections[idx])),
                    simulation_start_dt, simulation_end_dt).skip

\* the two cache files have the same status and hold the same document
SameFile(f, g) == f.status = g.status /\ JsonLoad(f.doc) = JsonLoad(g.doc)

\* C24 as the specification states it: the cache lookup, with the edge mapping
\* and the cache write on a miss, is behind the intersection when it comes to
\* the availability gate, so the cache file then holds its junction's record
C24_AsStated ==
    pc = "availability" => junction_id \in CachedJunctions(db_file)

\* C24: per-intersection stage order.  Junction resolution comes first, then
\* the availability gate, then the cache lookup (with the edge mapping and the
\* cache write on a miss), then flow synthesis.  The edge mapper is called and
\* the cache file is written only at the mapping stage, that is after the
\* gate has let the intersection pass.  An intersection the gate rejects is
\* dropped there: no cache lookup, no mapper call, no cache write, no flow
\* synthesis, and the loop goes to the next intersection.
C24_StageOrder ==
    [][/\ pc' = "availability" => pc = "resolve" /\ junction_id' # NoneVal
       /\ pc' = "mapping" => pc = "availability" /\ ~GateRejects
       /\ pc' = "flows" => pc = "mapping"
       /\ (map_result' # map_result \/ ~SameFile(db_file', db_file)) => pc = "mapping"
       /\ synth_for' # synth_for => pc = "flows"
       /\ GateRejects =>
             /\ pc' = "resolve" /\ idx' = idx + 1
             /\ SameFile(db_file', db_file) /\ map_result' = map_result
             /\ synth_for' = synth_for /\ routes_root' = routes_root
      ]_vars

\* the first intersection is located at J1 and rejected by the gate (its data
\* ends when the window starts); the second is located at J1 too, passes the
\* gate and emits flows: the record of J1 in the cache file is the second's
C24_Witness ==
    /\ pc = "done" /\ Len(intersections) = 2
    /\ db_file_at_start.status = "missing"
    /\ intersections[1].centreline_id = "c4"
    /\ incomplete_data = <<[about |-> 1, reason |-> "data_not_available_for_window"]>>
    /\ intersections[2].centreline_id = "c1" /\ intersections[2].intersection_id = NoneVal
    /\ emitted[1] = <<>> /\ emitted[2] # <<>>
    /\ synth_for = 2
    /\ CachedJunctions(db_file) = {"J1"}
    /\ LoadProcessedDb(db_file)["J1"].centreline_id = "c1"

\* the intersections gone through, in order, that put flows in the output
WithFlows == SelectSeq([k \in 1..Len(emitted) |-> k], LAMBDA k : emitted[k] # <<>>)

\* C25: every intersection the run has gone through ended in exactly one of
\* two outcomes: one diagnostics entry and no flows in the output, or one
\* simulation-details record and a non-empty set of flows in the output.  So
\* the diagnostics entries and the details records together are as many as
\* the intersections (all of them when the run is done), the details records
\* are those of the intersections with flows, in order, and every flow of the
\* output is a flow of an intersection that has a details record.
C25_OneOutcomePerIntersection ==
    pc \in {"resolve", "done"} =>
        /\ pc = "done" => Len(emitted) = Len(intersections)
        /\ Len(incomplete_data) + Len(simulation_details) = Len(emitted)
        /\ \A k \in 1..Len(emitted) :
              Cardinality(DiagnosticsAbout(k)) = IF emitted[k] = <<>> THEN 1 ELSE 0
        /\ Len(simulation_details) = Len(WithFlows)
        /\ \A j \in 1..Len(WithFlows) :
              LET k == WithFlows[j] IN
              /\ simulation_details[j].centreline_id = UniqueId(intersections[k])
              /\ simulation_details[j].location_name = intersections[k].location_name
              /\ simulation_details[j].monitored_incoming_edges
                    = {emitted[k][i].from : i \in 1..Len(emitted[k])}
              /\ simulation_details[j].monitored_outgoing_edges
                    = {emitted[k][i].to : i \in 1..Len(emitted[k])}
        /\ routes_root = Flatten([j \in 1..Len(WithFlows) |-> emitted[WithFlows[j]]])

\* a run over two intersections: flow synthesis gives no flow for the first
\* (one diagnostics entry), the second puts flows in the output (one details
\* record)
C25_Witness ==
    /\ pc = "done" /\ Len(intersections) = 2
    /\ incomplete_data = <<[about |-> 1, reason |-> "no_flows"]>>
    /\ Len(simulation_details) = 1
    /\ emitted[1] = <<>> /\ routes_root = emitted[2] /\ Len(routes_root) > 1

\* C26: the flow records in the output of a run have pairwise distinct
\* identifiers, whatever the input.
C26_FlowIdsDistinct ==
    \A i, j \in 1..Len(routes_root) :
        i # j => routes_root[i].id # routes_root[j].id

\* the part of C26 that holds of one call of generate_flows_for_intersection
\* whose rows in the window have pairwise different start times: the flows
\* it returns have pairwise distinct identifiers
C26_DistinctWithinCallOnDistinctStarts ==
    (pc = "returned" /\ ~gen_result.raised
       /\ \A q1, q2 \in Qualifying :
             q1[1] # q2[1] => RowStart(q1[1]).t # RowStart(q2[1]).t) =>
        \A i, j \in 1..Len(gen_result.flows) :
            i # j => gen_result.flows[i].id # gen_result.flows[j].id

\* one call of generate_flows_for_intersection returns flows that share an
\* identifier
C26_SameIdWithinCall ==
    /\ pc = "returned" /\ ~gen_result.raised
    /\ \E i, j \in 1..Len(gen_result.flows) :
          i # j /\ gen_result.flows[i].id = gen_result.flows[j].id

\* the intersection under way brings a non-empty mapped_edges
OwnMapping == intersections[idx].has_mapped_edges

\* the junction under way is a node of the network
InNetwork == \E n \in SeqRange(net.nodes) : n.id = junction_id

\* C27: the mapping comes from the cache, else from the intersection's
\* mapped_edges, else from the edge mapper.  With a cache record the cached
\* edge_mapping is used, also when the intersection brings a different
\* mapped_edges.  On a miss a non-empty mapped_edges is used, the edge mapper
\* is not called, and mapped_edges is the edge_mapping of the new cache
\* record.  The edge mapper is called only on a miss without mapped_edges,
\* and what it returns is then used and stored.
C27_MappingSourcePrecedence ==
    [][/\ (pc = "mapping" /\ CacheHit) =>
            /\ cur_mapping' = processed_db[junction_id].edge_mapping
            /\ map_result' = map_result
       /\ (pc = "mapping" /\ ~CacheHit /\ OwnMapping /\ InNetwork) =>
            /\ cur_mapping' = intersections[idx].mapped_edges
            /\ map_result' = map_result
            /\ LoadProcessedDb(db_file')[junction_id].edge_mapping
                  = intersections[idx].mapped_edges
       /\ (pc = "mapping" /\ ~CacheHit /\ ~OwnMapping /\ InNetwork) =>
            /\ ~map_result'.raised
            /\ cur_mapping' = map_result'.mapping
            /\ LoadProcessedDb(db_file')[junction_id].edge_mapping = map_result'.mapping
       /\ map_result' # map_result => pc = "mapping" /\ ~CacheHit /\ ~OwnMapping
      ]_vars

\* the cache holds the north-south mapping for J1 and the intersection at J1
\* brings the full mapping: flow synthesis starts with the cached one, and
\* the edge mapper has not been called
C27_Witness ==
    /\ pc = "flows" /\ idx = 1
    /\ intersections[1].intersection_id = "J1" /\ OwnMapping
    /\ intersections[1].mapped_edges = FullMapping
    /\ CacheHit /\ processed_db["J1"].edge_mapping = NorthSouthMapping
    /\ cur_mapping = NorthSouthMapping
    /\ map_result.mapping = NoMapping

\* the decoding of the key of qualifying pair q
DecodedAt(q) == DecodeCell(rows[q[1]].cells[q[2]].key, rows[q[1]].cells[q[2]].value)

\* direction d of side (a dict of the mapping) is no key, or a key with an
\* empty edge list
Unusable(side, d) == d \notin DOMAIN side \/ Len(side[d]) = 0

\* qualifying pair q needs a direction the mapping cannot give
NeedsUnusable(q) ==
    \/ Unusable(mapping.incoming, DecodedAt(q).from_dir)
    \/ Unusable(mapping.outgoing, DecodedAt(q).to_dir)

\* C28: a direction that is a key of the mapping with an empty edge list is
\* treated exactly like a direction that is no key.  The call raises exactly
\* when some qualifying key needs a direction that is missing or empty; so a
\* call that returns has indexed no empty list, and the from and to edge of
\* every flow it returns (and of every flow built before a raise) are
\* elements of the mapping's lists for the flow's directions.
C28_EmptyListIsMissingDirection ==
    pc \in {"returned", "raised"} =>
        /\ gen_result.raised <=> \E q \in Qualifying : NeedsUnusable(q)
        /\ gen_result.raised <=> pc = "raised"
        /\ \A i \in 1..Len(gen_result.flows) :
              \E q \in Qualifying :
                 /\ ~NeedsUnusable(q)
                 /\ gen_result.flows[i].id[2] = rows[q[1]].cells[q[2]].key
                 /\ gen_result.flows[i].from
                       \in SeqRange(mapping.incoming[DecodedAt(q).from_dir])
                 /\ gen_result.flows[i].to
                       \in SeqRange(mapping.outgoing[DecodedAt(q).to_dir])

\* the mapping has south as a key of outgoing with an empty list, every other
\* direction a qualifying key needs is there, and the call raises
C28_Witness ==
    /\ pc = "raised"
    /\ "south" \in DOMAIN mapping.outgoing /\ mapping.outgoing["south"] = <<>>
    /\ \E q \in Qualifying : DecodedAt(q).to_dir = "south"
    /\ \A q \in Qualifying :
          /\ DecodedAt(q).from_dir \in DOMAIN mapping.incoming
          /\ DecodedAt(q).to_dir \in DOMAIN mapping.outgoing
          /\ mapping.incoming[DecodedAt(q).from_dir] # <<>>
    /\ Len(gen_result.flows) >= 1

(***************************************************************************)
(* utils.py: get_data_availability_by_intersection                         *)
(***************************************************************************)

\* utils.py:56: the stripped centreline ids of the intersections that have one
ValidIds(inters) ==
    {Strip(inters[i].centreline_id) : i \in {k \in 1..Len(inters) : inters[k].centreline_id # ""}}

\* utils.py:62-71: availability[vid], the (st, et) pairs of the rows of vid
\* whose two times parse, in file order
UtilIntervals(csv, vid) ==
    LET kept == SelectSeq(csv, LAMBDA r : /\ Strip(r.centreline_id) = vid
                                         /\ FromIsoFormat(r.start_time).ok
                                         /\ FromIsoFormat(r.end_time).ok)
    IN [i \in 1..Len(kept) |->
          <<FromIsoFormat(kept[i].start_time).t, FromIsoFormat(kept[i].end_time).t>>]

\* mutant: an interval that starts where the last one ends is not merged
UtilMergeStep_StrictOverlap(merged, interval) ==
    IF merged = <<>> THEN Append(merged, interval)
    ELSE LET last == merged[Len(merged)] IN
         IF interval[1] < last[2]
         THEN [merged EXCEPT ![Len(merged)] =
                  <<last[1], IF last[2] >= interval[2] THEN last[2] ELSE interval[2]>>]
         ELSE Append(merged, interval)

\* utils.py:79-86: one iteration of the merge loop
UtilMergeStep(merged, interval) ==
    IF merged = <<>> THEN Append(merged, interval)
    ELSE LET last == merged[Len(merged)] IN
         IF interval[1] <= last[2]
         THEN [merged EXCEPT ![Len(merged)] =
                  <<last[1], IF last[2] >= interval[2] THEN last[2] ELSE interval[2]>>]
         ELSE Append(merged, interval)

\* utils.py:77-86: the loop over the sorted intervals from position i on
RECURSIVE UtilMergeFrom(_, _, _)
UtilMergeFrom(sorted, i, merged) ==
    IF i > Len(sorted) THEN merged
    ELSE UtilMergeFrom(sorted, i + 1, UtilMergeStep(merged, sorted[i]))

\* utils.py:87: the merged intervals as dicts of strings
UtilFormat(merged) ==
    [i \in 1..Len(merged) |->
        [start |-> Strftime(merged[i][1]), end |-> Strftime(merged[i][2])]]

\* get_data_availability_by_intersection: the dict result; an id without
\* intervals is no key
GetDataAvailabilityByIntersection(inters, csv) ==
    [vid \in {v \in ValidIds(inters) : UtilIntervals(csv, v) # <<>>} |->
        UtilFormat(UtilMergeFrom(SortByStart(UtilIntervals(csv, vid)), 1, <<>>))]

(***************************************************************************)
(* Specification SpecAvail: the availability of one intersection computed  *)
(* by simulate_simulation and by get_data_availability_by_intersection    *)
(* from the same JSON and CSV files                                        *)
(***************************************************************************)

AvailRow(cid, st, et) == CsvRow(cid, st, et, "-79.40", "43.65", Counts("11", "5", "0", "0", "0"))

\* the rows the CSV file may hold: rows of c1 (also written " c1 ") that
\* overlap, touch, nest, lie apart, end before they start or do not parse,
\* a row of c2 and a row without an id
AvailRowPool ==
    {AvailRow("c1", "2024-01-01T08:00:00", "2024-01-01T08:15:00"),
     AvailRow("c1", "2024-01-01T08:15:00", "2024-01-01T08:30:00"),
     AvailRow("c1", "2024-01-01T08:30:00", "2024-01-01T08:45:00"),
     AvailRow("c1", "2024-01-01T07:45:00", "2024-01-01T08:45:00"),
     AvailRow("c1", "2024-01-01T08:15:00", "2024-01-01T08:00:00"),
     AvailRow("c1", "2024-01-01T08:15:00", "2024-01-01T08:15:00"),
     AvailRow("c1", "n/a", "2024-01-01T08:15:00"),
     AvailRow(" c1 ", "2024-01-01T08:00:00", "2024-01-01T08:30:00"),
     AvailRow("c2", "2024-01-01T08:00:00", "2024-01-01T08:15:00"),
     AvailRow("", "2024-01-01T08:00:00", "2024-01-01T08:15:00")}

\* the one intersection of the JSON file
AvailInterPool ==
    {Inter("c1", "J1", FALSE, NoMapping, "id as in the CSV"),
     Inter(" c1 ", "J1", FALSE, NoMapping, "id with blanks"),
     Inter("c2", "J1", FALSE, NoMapping, "another id"),
     Inter("c5", "J1", FALSE, NoMapping, "no rows")}

InitAvail ==
    /\ pc = "files"
    /\ csv_rows \in SeqsUpTo(AvailRowPool, MaxCsvRows)
    /\ \E inter \in AvailInterPool : intersections = <<inter>>
    /\ util_availability = <<>>
    /\ input_fault = "none" /\ data_rows_by_id = EmptyDict
    /\ idx = 0 /\ input_coords = <<>> /\ availability_intervals = <<>>
    /\ cur_mapping = NoMapping
    /\ routes_root = <<>> /\ incomplete_data = <<>> /\ simulation_details = <<>>
    /\ emitted = <<>> /\ replies = <<>> /\ synth_for = 0
    /\ simulation_start_dt = RunWindow[1] /\ simulation_end_dt = RunWindow[2]
    /\ mapping = NoMapping /\ rows = <<>> /\ intersection_id = NoneVal
    /\ gen_result = [raised |-> FALSE, flows |-> <<>>]
    /\ IdleDb /\ junction_id = NoneVal
    /\ IdleTurn /\ IdleClassify /\ IdleMerge
    /\ IdleMap /\ IdleOverlap /\ IdleCache /\ IdleRepeat /\ IdleLocate /\ IdleWriters

\* simulation.py:171-186 and 230-261 for the intersection: the rows are
\* grouped and the availability intervals of the intersection computed
SimulationAvailability ==
    /\ pc = "files"
    /\ data_rows_by_id' = GroupRows(csv_rows)
    /\ idx' = 1
    /\ availability_intervals' =
          Availability(RowsOf(data_rows_by_id', UniqueId(intersections[1])),
                       simulation_start_dt, simulation_end_dt).intervals
    /\ pc' = "simulated"
    /\ UNCHANGED <<flowVars, turnVars, classifyVars, mergeVars, input_fault, intersections,
                   db_file, db_file_at_start, processed_db, junction_id, input_coords,
                   cur_mapping, routes_root, incomplete_data, simulation_details, emitted,
                   replies, synth_for, mapVars, overlapVars, cacheVars, repeatVars,
                   locateVars, writerVars, csv_rows, util_availability>>

\* get_data_availability_by_intersection(json_file, data_csv_file) returns
CallGetDataAvailability ==
    /\ pc = "simulated"
    /\ util_availability' = GetDataAvailabilityByIntersection(intersections, csv_rows)
    /\ pc' = "compared"
    /\ UNCHANGED <<flowVars, turnVars, classifyVars, mergeVars, pipeVars, mapVars,
                   overlapVars, cacheVars, repeatVars, locateVars, writerVars, csv_rows>>

NextAvail == SimulationAvailability \/ CallGetDataAvailability

SpecAvail == InitAvail /\ [][NextAvail]_vars

\* C29: the two interval-merge implementations agree.  For the rows of the
\* CSV file that belong to an intersection, the merged availability list
\* simulate_simulation computes is the list
\* get_data_availability_by_intersection returns under the intersection's id,
\* interval for interval in the same order; when simulate_simulation finds no
\* row with valid times, the id is no key of the other's result.
C29_MergeImplementationsAgree ==
    pc = "compared" =>
        LET uid == UniqueId(intersections[1]) IN
        IF availability_intervals = <<>>
        THEN uid \notin DOMAIN util_availability
        ELSE /\ uid \in DOMAIN util_availability
             /\ util_availability[uid] = availability_intervals

\* three rows of c1 out of time order, the second written " c1 ": 08:30-08:45,
\* 08:00-08:30 and 08:00-08:15 nest and touch, and both computations give the
\* one interval 08:00-08:45
C29_Witness ==
    /\ pc = "compared"
    /\ Len(csv_rows) = 3
    /\ csv_rows[1].start_time = "2024-01-01T08:30:00"
    /\ csv_rows[2].centreline_id = " c1 "
    /\ csv_rows[3].start_time = "2024-01-01T08:00:00" /\ csv_rows[3].centreline_id = "c1"
    /\ csv_rows[3].end_time = "2024-01-01T08:15:00"
    /\ intersections[1].centreline_id = "c1"
    /\ availability_intervals
          = <<[start |-> "2024-01-01 08:00:00", end |-> "2024-01-01 08:45:00"]>>
    /\ util_availability["c1"] = availability_intervals

\* the junction ids of the records the cache file held when the call was
\* made, the id put apart
OtherIdsAtStart == DOMAIN db_file_at_start.doc \ {junction_id}

\* the record of j is in the file, as it was when the call was made
KeptSinceStart(j) ==
    /\ db_file.status = "ok"
    /\ j \in DOMAIN db_file.doc
    /\ JsonLoadRecord(db_file.doc[j]) = JsonLoadRecord(db_file_at_start.doc[j])

\* C30: update_processed_db(id, record) changes only the entry for id.  After
\* it, every other junction id the persisted document held is still in it
\* with the same record, whatever the state of the cache file when the call
\* was made, a file that could not be parsed included.
C30_PutChangesOnlyItsEntry ==
    pc \in {"updated", "loaded"} => \A j \in OtherIdsAtStart : KeptSinceStart(j)

\* the part of C30 that holds: when the file could be parsed at the time of
\* the call, every other record is kept
C30_PutKeepsOthersOfReadableFile ==
    (pc \in {"updated", "loaded"} /\ db_file_at_start.status = "ok") =>
        \A j \in OtherIdsAtStart : KeptSinceStart(j)

\* a put into a readable file with two records, neither under the id put
C30_ReadableFileWitness ==
    /\ pc = "updated" /\ db_file_at_start.status = "ok"
    /\ OtherIdsAtStart = {"J1", "N1"} /\ junction_id = "J2"
    /\ DOMAIN db_file.doc = {"J1", "N1", "J2"}

====
